---- MODULE Spec2Model ----
(***************************************************************************)
(* Verification model of parts of the MindSpore excerpt:                   *)
(*   - the RPC recv actor (recv_actor.cc): handler threads, the actor's    *)
(*     mailbox thread and the scheduler, as a state machine (Spec);        *)
(*   - InferSession::SelectSessionArg (SessionSpec);                       *)
(*   - RunnerConfig::SetConfigInfo (ConfigSpec);                           *)
(*   - SomasTensor's aligned size (SomasSpec);                             *)
(*   - the linear-sum-assignment solver (LsaSpec);                         *)
(*   - the division kernels and FloorMod of the arithmetic CPU kernel      *)
(*     (ArithSpec, FloorModSpec);                                          *)
(*   - Median shape inference (MedianSpec);                                *)
(*   - the sparse constructors' inference (SparseSpec);                    *)
(*   - the dropout forward kernel's seed offset (DropoutSpec);             *)
(*   - PynativeExecutor::GetInstance under concurrent calls                *)
(*     (PynativeSpec);                                                     *)
(*   - the grid-stride loops of the RMSProp CUDA kernels (RmsPropSpec);    *)
(*   - the CSR operators' inference (CsrSpec);                             *)
(*   - ApplyRMSProp shape inference (ApplySpec);                           *)
(*   - the recv actor's message memory (RecvMemSpec) and its parser of     *)
(*     dynamic shape data (PdsSpec);                                       *)
(*   - the pad-mode accessors of MaxPoolGradWithArgmax (MpSpec);           *)
(*   - AllGather and ReduceScatter shape inference (GatherSpec).           *)
(* Every specification leaves the variables of the other parts at their    *)
(* initial values.                                                         *)
(***************************************************************************)
EXTENDS Integers, Sequences, FiniteSets, TLC

VARIABLES
  \* ---- recv actor (recv_actor.cc) ----
  server_started,            \* StartServer has run (server_ != nullptr, handler installed)
  rpc_input_node_name_,      \* sequence of recv_src_node_name, one per SetRouteInfo
  input_inter_process_num_,  \* number of SetRouteInfo calls
  is_context_valid_,         \* the flag guarded by context_mtx_
  op_context_,               \* 0 = nullptr, n = the OpContext of step n (sequential_num_ = n)
  input_op_inter_process_,   \* sequential number -> vector of sender names
  remote_input,              \* the message last given to the rpc kernel (SetRemoteInput)
  mailbox,                   \* the actor's serialized mailbox: RunOpInterProcessData(msg, context)
  sent,                      \* sender -> number of messages emitted (message k is for step k)
  taken,                     \* sender -> number of its messages a handler has returned from
  hpc,                       \* sender -> position of its connection's HandleMessage call
  hmsg,                      \* sender -> message of that call: 0 = nullptr, k = the step-k message
  recorded_ctx,              \* <<sender, k>> -> sequential number it was recorded under (0: not yet)
  run_count,                 \* number of Run(context) calls made by RunOpInterProcessData
  run_inputs,                \* input_op_inter_process_[seq] as it was at the latest Run(context)
  run_ctx,                   \* the sequential number of the latest Run(context), 0 = none
  dropped,                   \* non-null messages HandleMessage returned from without dispatching
  sched_step,                \* the scheduler's current step, 0 before the first
  finished_step,             \* the last step whose recv actor completed (EraseInput)
  \* ---- InferSession::SelectSessionArg ----
  context,                   \* the Context argument
  delegate_registry,         \* device kinds DelegateRegistry::GetDelegate has a delegate for
  session_config,            \* the SessionConfig returned
  \* ---- RunnerConfig ----
  config_info,               \* data_->config_info: section -> number of keys stored
  \* ---- SomasTensor ----
  original_size_,            \* real_size as given to the constructor
  aligned_size_,
  somas_constructed,
  \* ---- LinearSumAssignmentCpuKernelMod ----
  cost_matrix_shape_,        \* <<nr, nc>> of the input cost matrix
  cost_matrix,               \* inputs[0], row-major: index i * nc + j, from 0
  dimension_limit,           \* inputs[1]
  maximize,                  \* inputs[2]
  lsa_result,                \* what LaunchKernel returned and wrote to row_ind, col_ind
  lsa_effort,                \* per row of Solve: rounds of the search loop, steps of the walk
  \* ---- ArithmeticCpuTypeFunc: the division kernels ----
  kernel_name_,              \* "Div", "RealDiv" or "FloorDiv"
  dtype,                     \* the element type T
  input_shape1_,             \* padded to the rank of output_shape_
  input_shape2_,
  input1,                    \* inputs[0], row-major from 0
  input2,                    \* inputs[1]
  output,                    \* outputs[0]: what the buffer holds
  arith_launched,            \* RunFunc has run
  \* ---- ArithmeticCpuTypeFunc::FloorMod ----
  floormod_dtype,
  floormod_x,                \* input1[0] = m * 2^e as <<m, e>>
  floormod_y,                \* input2[0]
  floormod_out,              \* out[0]
  floormod_done,
  \* ---- MedianInferShape ----
  median_x_shape,            \* the shape of input_args[0]
  median_attrs,              \* the primitive's attributes global_median, axis, keep_dims
  median_result,             \* the shape inferred for both outputs, or the error
  \* ---- sparse constructors' inference ----
  sparse_op,                 \* the primitive: MakeRowTensor, MakeCOOTensor or MakeCSRTensor
  sparse_args,               \* args_spec_list
  sparse_result,             \* the abstract returned, or the exception raised
  \* ---- DropoutFwdGpuKernelMod ----
  is_null_input_,
  num_count_,
  use_fused_dropout_,
  only_use_first_output_,
  only_use_second_output_,
  states_init_,
  seed_,
  seed_offset_,
  fused_calls,               \* the calls of the fused kernels so far, with their arguments
  \* ---- PynativeExecutor::GetInstance ----
  instance_lock_,            \* 0 = free, t = held by thread t
  executor_,
  forward_executor_,
  grad_executor_,
  grad_of_forward,           \* the grad executor set in the current forward executor
  constructed,               \* number of objects constructed, by class
  gi_pc,                     \* thread -> its position in GetInstance
  gi_returned,               \* thread -> the values its calls returned
  \* ---- RmsPropKernel / RmsPropCenterKernel (rmsprop_impl.cu) ----
  rms_kernel,                \* the kernel launched, "none" before the launch
  rms_batch_size,
  rms_input_elements,
  rms_gridDim,
  rms_blockDim,
  rms_i,                     \* <<blockIdx.x, threadIdx.x>> -> the thread's loop index i
  rms_updates,               \* element -> number of times the loop body ran on it
  rms_batch_read,            \* element -> the batch whose learning_rate its update read
  \* ---- CSR-family inference (prim_others.cc) ----
  csr_op,                    \* the inference function called
  csr_args,                  \* its arguments
  csr_result,                \* what it returned or raised
  csr_avg_rows,              \* the primitive's csr_avg_rows attribute
  \* ---- ApplyRMSProp shape inference (apply_rms_prop.cc) ----
  apply_args,                \* the shapes of var, mean_square, moment and grad
  apply_result,              \* what the inference returned or raised
  \* ---- recv actor, the memory of its messages (recv_actor.cc) ----
  apc,                       \* sender -> position of its connection's AllocateMessage call
  alloc_done,                \* sender -> number of its messages AllocateMessage returned for
  recv_data_,                \* the device address: whether created, and the buffer it points at
  buffers,                   \* message -> the buffer handed out for it, and the step that freed it
  \* ---- recv actor, dynamic shape data (recv_actor.cc) ----
  pds_body,                  \* the message body handed to PreprocessRemoteInput
  pds_count,                 \* the number of inputs of the recv kernel
  pds_pc,                    \* where the preprocessing of the message stands
  pds_i,                     \* the input the parser is at (from 1)
  data_to_be_parsed,         \* the parser's cursor, as a byte offset into the body
  pds_offset,                \* the running offset the parser returns
  pds_read_end,              \* the end of the bytes of the body read so far
  \* ---- MaxPoolGradWithArgmax ----
  mp_attrs,                  \* the attributes of the MaxPoolGradWithArgmax primitive
  mp_origin,                 \* the call that last wrote the pad_mode attribute
  mp_mode,                   \* the pad mode handed to that call
  mp_got,                    \* what get_pad_mode returned since
  \* ---- AllGather, ReduceScatter inference (prim_others.cc) ----
  gather_op,                 \* the collective primitive that was inferred
  gather_args,               \* the input shape and the rank_size attribute
  gather_result              \* the inferred shape, or the exception

recv_vars == <<server_started, rpc_input_node_name_, input_inter_process_num_,
               is_context_valid_, op_context_, input_op_inter_process_, remote_input,
               mailbox, sent, taken, hpc, hmsg, recorded_ctx, run_count, run_inputs,
               run_ctx, dropped, sched_step, finished_step>>

session_vars == <<context, delegate_registry, session_config>>
config_vars == <<config_info>>
somas_vars == <<original_size_, aligned_size_, somas_constructed>>
lsa_vars == <<cost_matrix_shape_, cost_matrix, dimension_limit, maximize, lsa_result,
              lsa_effort>>
arith_vars == <<kernel_name_, dtype, input_shape1_, input_shape2_, input1, input2, output,
                arith_launched>>
floormod_vars == <<floormod_dtype, floormod_x, floormod_y, floormod_out, floormod_done>>
median_vars == <<median_x_shape, median_attrs, median_result>>
sparse_vars == <<sparse_op, sparse_args, sparse_result>>
pynative_vars == <<instance_lock_, executor_, forward_executor_, grad_executor_,
                   grad_of_forward, constructed, gi_pc, gi_returned>>
dropout_vars == <<is_null_input_, num_count_, use_fused_dropout_, only_use_first_output_,
                  only_use_second_output_, states_init_, seed_, seed_offset_, fused_calls>>
rms_vars == <<rms_kernel, rms_batch_size, rms_input_elements, rms_gridDim, rms_blockDim,
              rms_i, rms_updates, rms_batch_read>>
csr_vars == <<csr_op, csr_args, csr_result, csr_avg_rows>>
apply_vars == <<apply_args, apply_result>>
recvmem_vars == <<apc, alloc_done, recv_data_, buffers>>
pds_vars == <<pds_body, pds_count, pds_pc, pds_i, data_to_be_parsed, pds_offset, pds_read_end>>
mp_vars == <<mp_attrs, mp_origin, mp_mode, mp_got>>
gather_vars == <<gather_op, gather_args, gather_result>>

-----------------------------------------------------------------------------
\* Bounds of the recv actor model.
NumSenders == 2
MaxStep == 2

Senders == 1..NumSenders
Steps == 1..MaxStep
Messages == Senders \X Steps
NULL_MSG == 0

Range(f) == {f[i] : i \in DOMAIN f}

-----------------------------------------------------------------------------
\* Construction: no route, no server, no context.
RecvInit ==
  /\ server_started = FALSE
  /\ rpc_input_node_name_ = <<>>
  /\ input_inter_process_num_ = 0
  /\ is_context_valid_ = FALSE
  /\ op_context_ = 0
  /\ input_op_inter_process_ = [n \in Steps |-> <<>>]
  /\ remote_input = <<0, NULL_MSG>>
  /\ mailbox = <<>>
  /\ sent = [s \in Senders |-> 0]
  /\ taken = [s \in Senders |-> 0]
  /\ hpc = [s \in Senders |-> "idle"]
  /\ hmsg = [s \in Senders |-> NULL_MSG]
  /\ recorded_ctx = [m \in Messages |-> 0]
  /\ run_count = 0
  /\ run_inputs = <<>>
  /\ run_ctx = 0
  /\ dropped = {}
  /\ sched_step = 0
  /\ finished_step = 0

\* RecvActor::SetRouteInfo: one more inter-process input, from peer src.
\* The scheduler links each inter-process edge once, so the source names are
\* distinct; peers are numbered in the order they are linked.
SetRouteInfo(src) ==
  /\ ~server_started
  /\ src = Len(rpc_input_node_name_) + 1
  /\ rpc_input_node_name_' = Append(rpc_input_node_name_, src)
  /\ input_inter_process_num_' = input_inter_process_num_ + 1
  /\ UNCHANGED <<server_started, is_context_valid_, op_context_, input_op_inter_process_,
                 remote_input, mailbox, sent, taken, hpc, hmsg, recorded_ctx, run_count,
                 run_inputs, run_ctx, dropped, sched_step, finished_step>>

\* RecvActor::StartServer: the server listens and HandleMessage is installed.
StartServer ==
  /\ ~server_started
  /\ server_started' = TRUE
  /\ UNCHANGED <<rpc_input_node_name_, input_inter_process_num_, is_context_valid_,
                 op_context_, input_op_inter_process_, remote_input, mailbox, sent, taken,
                 hpc, hmsg, recorded_ctx, run_count, run_inputs, run_ctx, dropped,
                 sched_step, finished_step>>

\* RecvActor::SetOpcontext, under context_mtx_: attach the context and notify_all.
SetOpcontext(ctx) ==
  /\ ctx # 0
  /\ op_context_' = ctx
  /\ is_context_valid_' = TRUE

\* RecvActor::ResetOpcontext, under context_mtx_.
ResetOpcontext ==
  is_context_valid_' = FALSE

\* The scheduler begins its next step and attaches that step's context. It begins
\* step n+1 only after the recv actor has completed step n.
SchedulerStep ==
  /\ server_started
  /\ sched_step < MaxStep
  /\ finished_step = sched_step
  /\ sched_step' = sched_step + 1
  /\ SetOpcontext(sched_step + 1)
  /\ UNCHANGED <<server_started, rpc_input_node_name_, input_inter_process_num_,
                 input_op_inter_process_, remote_input, mailbox, sent, taken, hpc, hmsg,
                 recorded_ctx, run_count, run_inputs, run_ctx, dropped, finished_step>>

\* A routed peer's send actor emits its message for its next step.
SenderEmit(s) ==
  /\ server_started
  /\ s \in Range(rpc_input_node_name_)
  /\ sent[s] < MaxStep
  /\ sent' = [sent EXCEPT ![s] = @ + 1]
  /\ UNCHANGED <<server_started, rpc_input_node_name_, input_inter_process_num_,
                 is_context_valid_, op_context_, input_op_inter_process_, remote_input,
                 mailbox, taken, hpc, hmsg, recorded_ctx, run_count, run_inputs, run_ctx,
                 dropped, sched_step, finished_step>>

\* The server calls HandleMessage(msg) on the connection of peer s: the call takes
\* context_mtx_ and reaches the condition variable. msg is the peer's next message
\* in order, or nullptr.
HandleMessage_Enter(s, msg) ==
  /\ server_started
  /\ s \in Range(rpc_input_node_name_)
  /\ hpc[s] = "idle"
  /\ \/ msg = NULL_MSG
     \/ msg = taken[s] + 1 /\ msg <= sent[s]
  /\ hpc' = [hpc EXCEPT ![s] = "wait"]
  /\ hmsg' = [hmsg EXCEPT ![s] = msg]
  /\ UNCHANGED <<server_started, rpc_input_node_name_, input_inter_process_num_,
                 is_context_valid_, op_context_, input_op_inter_process_, remote_input,
                 mailbox, sent, taken, recorded_ctx, run_count, run_inputs, run_ctx,
                 dropped, sched_step, finished_step>>

\* A wait without its predicate: any wake-up lets the handler through.
HandleMessage_WaitNoPredicate(s) ==
  /\ hpc[s] = "wait"
  /\ hpc' = [hpc EXCEPT ![s] = "passed"]
  /\ UNCHANGED <<server_started, rpc_input_node_name_, input_inter_process_num_,
                 is_context_valid_, op_context_, input_op_inter_process_, remote_input,
                 mailbox, sent, taken, hmsg, recorded_ctx, run_count, run_inputs, run_ctx,
                 dropped, sched_step, finished_step>>

\* context_cv_.wait(lock, [this] { return is_context_valid_; }); lock.unlock();
HandleMessage_Wait(s) ==
  /\ hpc[s] = "wait"
  /\ is_context_valid_
  /\ hpc' = [hpc EXCEPT ![s] = "passed"]
  /\ UNCHANGED <<server_started, rpc_input_node_name_, input_inter_process_num_,
                 is_context_valid_, op_context_, input_op_inter_process_, remote_input,
                 mailbox, sent, taken, hmsg, recorded_ctx, run_count, run_inputs, run_ctx,
                 dropped, sched_step, finished_step>>

\* The rest of HandleMessage, after the lock is released: a null message or a null
\* context returns at once; otherwise RunOpInterProcessData(msg, op_context_) is
\* sent to the actor's own mailbox.
HandleMessage_Dispatch(s) ==
  /\ hpc[s] = "passed"
  /\ IF hmsg[s] = NULL_MSG \/ op_context_ = 0
       THEN /\ mailbox' = mailbox
            /\ dropped' = IF hmsg[s] = NULL_MSG THEN dropped ELSE dropped \cup {<<s, hmsg[s]>>}
       ELSE /\ mailbox' = Append(mailbox, [from |-> s, msg |-> hmsg[s], context |-> op_context_])
            /\ dropped' = dropped
  /\ taken' = [taken EXCEPT ![s] = IF hmsg[s] = NULL_MSG THEN @ ELSE @ + 1]
  /\ hpc' = [hpc EXCEPT ![s] = "idle"]
  /\ hmsg' = [hmsg EXCEPT ![s] = NULL_MSG]
  /\ UNCHANGED <<server_started, rpc_input_node_name_, input_inter_process_num_,
                 is_context_valid_, op_context_, input_op_inter_process_, remote_input,
                 sent, recorded_ctx, run_count, run_inputs, run_ctx, sched_step,
                 finished_step>>

\* AbstractActor::CheckRunningCondition: the actor's local data and control arrows.
\* The recv actor modelled here has none, so the check is satisfied.
AbstractActor_CheckRunningCondition == TRUE

\* RecvActor::CheckRunningCondition for the inputs recorded under one sequential
\* number (inputs = <<>> when the map has no entry for it).
CheckRunningCondition(inputs) ==
  IF ~AbstractActor_CheckRunningCondition THEN FALSE
  ELSE IF input_inter_process_num_ # 0
    THEN IF inputs = <<>> THEN FALSE
         ELSE IF Len(inputs) < input_inter_process_num_ THEN FALSE
         ELSE IF Len(inputs) > input_inter_process_num_ THEN FALSE
         ELSE TRUE
    ELSE TRUE

\* RecvActor::EraseInput: the entry of the sequential number is erased.
EraseInput(map, seq) ==
  [map EXCEPT ![seq] = <<>>]

\* The actor thread takes RunOpInterProcessData(msg, context) from the mailbox:
\* reset the context, record the sender under context->sequential_num_, check the
\* running condition, hand the message to the rpc kernel and, when the condition
\* holds, Run(context); KernelActor::Run launches the kernel and completes the
\* actor's step, which ends in EraseInput(context).
RunOpInterProcessData ==
  /\ mailbox # <<>>
  /\ LET call == Head(mailbox)
         seq == call.context
         inputs == Append(input_op_inter_process_[seq], call.from)
         is_run == CheckRunningCondition(inputs)
     IN /\ mailbox' = Tail(mailbox)
        /\ ResetOpcontext
        /\ recorded_ctx' = [recorded_ctx EXCEPT ![<<call.from, call.msg>>] = seq]
        /\ remote_input' = <<call.from, call.msg>>
        /\ IF is_run
             THEN /\ run_count' = run_count + 1
                  /\ run_inputs' = inputs
                  /\ run_ctx' = seq
                  /\ input_op_inter_process_' =
                       EraseInput([input_op_inter_process_ EXCEPT ![seq] = inputs], seq)
                  /\ finished_step' = IF seq > finished_step THEN seq ELSE finished_step
             ELSE /\ input_op_inter_process_' = [input_op_inter_process_ EXCEPT ![seq] = inputs]
                  /\ UNCHANGED <<run_count, run_inputs, run_ctx, finished_step>>
  /\ UNCHANGED <<server_started, rpc_input_node_name_, input_inter_process_num_,
                 op_context_, sent, taken, hpc, hmsg, dropped, sched_step>>

RecvNext ==
  \/ \E src \in Senders : SetRouteInfo(src)
  \/ StartServer
  \/ SchedulerStep
  \/ \E s \in Senders : SenderEmit(s)
  \/ \E s \in Senders : \E msg \in {NULL_MSG} \cup Steps : HandleMessage_Enter(s, msg)
  \/ \E s \in Senders : HandleMessage_Wait(s)
  \/ \E s \in Senders : HandleMessage_Dispatch(s)
  \/ RunOpInterProcessData

-----------------------------------------------------------------------------
\* InferSession::SelectSessionArg (infer_session.cc)

MaxDevices == 2
DeviceKinds == {"cpu", "gpu_tensorrt", "ascend"}
NullDevice == "nullptr"

kDelegateSession == "kDelegateSession"
kSingleOpSession == "kSingleOpSession"
kLiteInferSession == "kLiteInferSession"
kDefaultSession == "kDefaultSession"

\* The file's static flags.
is_infer_single_op == TRUE
is_use_lite_session == FALSE

SeqsUpTo(S, n) == UNION {[1..k -> S] : k \in 0..n}

NullContext == [is_null |-> TRUE, delegate |-> FALSE, devices |-> <<>>]
Contexts ==
  {NullContext} \cup
  [is_null : {FALSE}, delegate : BOOLEAN,
   devices : SeqsUpTo(DeviceKinds \cup {NullDevice}, MaxDevices)]

NoConfig == [type_ |-> "none", delegates_ |-> <<>>]

\* The loop over context->MutableDeviceInfo(): the delegates appended, in order.
RECURSIVE DeviceDelegates(_, _)
DeviceDelegates(devices, registry) ==
  IF devices = <<>> THEN <<>>
  ELSE IF Head(devices) \in registry
         THEN <<Head(devices)>> \o DeviceDelegates(Tail(devices), registry)
         ELSE DeviceDelegates(Tail(devices), registry)

\* The single-op flag tested before the delegates.
SelectSessionArg_SingleOpFirst(ctx, registry) ==
  IF ~ctx.is_null /\ \E i \in DOMAIN ctx.devices : ctx.devices[i] = NullDevice
    THEN [type_ |-> "exception", delegates_ |-> <<>>]
    ELSE LET delegates_ ==
               IF ctx.is_null THEN <<>>
               ELSE (IF ctx.delegate THEN <<"context_delegate">> ELSE <<>>)
                      \o DeviceDelegates(ctx.devices, registry)
         IN IF is_infer_single_op THEN [type_ |-> kSingleOpSession, delegates_ |-> delegates_]
            ELSE IF delegates_ # <<>> THEN [type_ |-> kDelegateSession, delegates_ |-> delegates_]
            ELSE IF is_use_lite_session THEN [type_ |-> kLiteInferSession, delegates_ |-> delegates_]
            ELSE [type_ |-> kDefaultSession, delegates_ |-> delegates_]

\* InferSession::SelectSessionArg. MS_EXCEPTION_IF_NULL(device_context) raises on a
\* null entry of the device list.
SelectSessionArg(ctx, registry) ==
  IF ~ctx.is_null /\ \E i \in DOMAIN ctx.devices : ctx.devices[i] = NullDevice
    THEN [type_ |-> "exception", delegates_ |-> <<>>]
    ELSE LET delegates_ ==
               IF ctx.is_null THEN <<>>
               ELSE (IF ctx.delegate THEN <<"context_delegate">> ELSE <<>>)
                      \o DeviceDelegates(ctx.devices, registry)
         IN IF delegates_ # <<>> THEN [type_ |-> kDelegateSession, delegates_ |-> delegates_]
            ELSE IF is_infer_single_op THEN [type_ |-> kSingleOpSession, delegates_ |-> delegates_]
            ELSE IF is_use_lite_session THEN [type_ |-> kLiteInferSession, delegates_ |-> delegates_]
            ELSE [type_ |-> kDefaultSession, delegates_ |-> delegates_]

SessionIdle ==
  /\ context = NullContext
  /\ delegate_registry = {}
  /\ session_config = NoConfig

SessionInit ==
  /\ context \in Contexts
  /\ delegate_registry \in SUBSET DeviceKinds
  /\ session_config = NoConfig

\* InferSession::CreateSession calls SelectSessionArg(context).
CreateSession ==
  /\ session_config = NoConfig
  /\ session_config' = SelectSessionArg(context, delegate_registry)
  /\ UNCHANGED <<context, delegate_registry>>

-----------------------------------------------------------------------------
\* RunnerConfig::SetConfigInfo (model_parallel_runner.cc)

kMaxSectionNum == 100
kMaxConfigNumPerSection == 1000

\* Section names offered to SetConfigInfo.
MaxSectionNames == 102
SectionNames == 1..MaxSectionNames
\* Sizes of the config map offered: the largest accepted and the smallest rejected.
ConfigSizes == {kMaxConfigNumPerSection, kMaxConfigNumPerSection + 1}

ConfigInit == config_info = <<>>
ConfigIdle == config_info = <<>>

\* RunnerConfig::SetConfigInfo(section, config); config_size = config.size().
\* Section names are interchangeable, so a new section is the next unused name.
SetConfigInfo(section, config_size) ==
  /\ section <= Len(config_info) + 1
  /\ IF Len(config_info) > kMaxSectionNum THEN config_info' = config_info
     ELSE IF config_size > kMaxConfigNumPerSection THEN config_info' = config_info
     ELSE config_info' = [n \in (DOMAIN config_info) \cup {section} |-> 
                            IF n = section THEN config_size ELSE config_info[n]]

-----------------------------------------------------------------------------
\* SomasTensor::SomasTensor (somas_tensor.cc)

MaxRealSize == 1100

alignment == 512
alignment_complement == 31

\* Rounding up to the alignment without the complement.
AlignedSize_NoComplement(real_size) ==
  IF real_size > 0 THEN ((real_size + alignment - 1) \div alignment) * alignment ELSE 0

\* Rounding size + alignment_complement up to the alignment: a size whose sum with
\* the complement is a multiple of the alignment gets no further block.
AlignedSize_CeilOfComplement(real_size) ==
  IF real_size > 0
    THEN ((real_size + alignment_complement + alignment - 1) \div alignment) * alignment
    ELSE 0

\* aligned_size_ as the constructor computes it (size_t, far below its wrap-around).
AlignedSize(real_size) ==
  IF real_size > 0
    THEN ((real_size + alignment + alignment_complement) \div alignment) * alignment
    ELSE 0

SomasInit ==
  /\ original_size_ = 0
  /\ aligned_size_ = 0
  /\ somas_constructed = FALSE
SomasIdle == SomasInit

SomasTensor(real_size) ==
  /\ ~somas_constructed
  /\ original_size_' = real_size
  /\ aligned_size_' = AlignedSize(real_size)
  /\ somas_constructed' = TRUE

-----------------------------------------------------------------------------
\* LinearSumAssignmentCpuKernelMod (plugin/device/cpu/kernel/eigen/expand_cpu_kernel.h)
\* Vectors are functions on 0..n-1, as the code indexes them. Cost entries are
\* integers, which float and double represent exactly in the range used here.

MaxDim == 3
MaxCells == 6
CostValues == {-1, 0, 2, 3}
MaxSpecialCells == 4

\* std::numeric_limits<T>::infinity(): above every finite path cost of the model.
INFINITY == 1000000
\* The dimension_limit that stands for "no limit" (INT64_MAX).
INT64_MAX == 2147483647

Min2(x, y) == IF x < y THEN x ELSE y

Vec(n, val) == [k \in 0..(n - 1) |-> val]
NoWrites == Vec(0, 0)
Write(arr, i, val) == [k \in (DOMAIN arr) \cup {i} |-> IF k = i THEN val ELSE arr[k]]

\* The float value NaN (std::isnan). INFINITY and -INFINITY are the two infinities;
\* every other value of the model is a finite number far below INFINITY.
NaN == 2000000
IsNaN(x) == x = NaN
SpecialValues == {NaN, -INFINITY, INFINITY, 0, 2}

\* Float arithmetic and comparison as IEEE 754 defines them on NaN and the
\* infinities; on finite values they are the integer operations.
FNeg(x) == IF IsNaN(x) THEN NaN ELSE -x
FAdd(x, y) ==
  IF IsNaN(x) \/ IsNaN(y) THEN NaN
  ELSE IF (x = INFINITY /\ y = -INFINITY) \/ (x = -INFINITY /\ y = INFINITY) THEN NaN
  ELSE IF x = INFINITY \/ y = INFINITY THEN INFINITY
  ELSE IF x = -INFINITY \/ y = -INFINITY THEN -INFINITY
  ELSE x + y
FSub(x, y) == FAdd(x, FNeg(y))
FLess(x, y) == ~IsNaN(x) /\ ~IsNaN(y) /\ x < y
FEq(x, y) == ~IsNaN(x) /\ ~IsNaN(y) /\ x = y

\* check_value: no entry of cost[0 .. nr * nc - 1] is NaN or -INFINITY.
check_value(cost, nr, nc) ==
  \A i \in 0..(nr * nc - 1) : ~(IsNaN(cost[i]) \/ FEq(cost[i], -INFINITY))

\* The copy loops of ReArrange, cell t = i * nc + j of the nr x nc domain in the
\* order the code visits them: temp->at(j * nr + i) when transposing,
\* temp->at(i * nr + j) otherwise.
RECURSIVE CopyLoop(_, _, _, _, _, _, _)
CopyLoop(temp, cost, nr, nc, raw_nc, transpose, t) ==
  IF t >= nr * nc THEN temp
  ELSE CopyLoop([temp EXCEPT ![IF transpose THEN (t % nc) * nr + (t \div nc)
                                            ELSE (t \div nc) * nr + (t % nc)]
                               = cost[(t \div nc) * raw_nc + (t % nc)]],
                cost, nr, nc, raw_nc, transpose, t + 1)

\* The std::transform of ReArrange: every entry negated when maximize is set.
Negate(temp, maximize_) ==
  IF maximize_ THEN [k \in DOMAIN temp |-> FNeg(temp[k])] ELSE temp

\* ReArrange: temp (resized to nr * nc zeros by Solve) receives the transposed or
\* the plain copy, nr and nc are swapped on transpose, and every entry is negated
\* when maximize is set.
ReArrange(nr, nc, raw_nc, cost, transpose, maximize_) ==
  [nr |-> IF transpose THEN nc ELSE nr,
   nc |-> IF transpose THEN nr ELSE nc,
   temp |-> Negate(CopyLoop(Vec(nr * nc, 0), cost, nr, nc, raw_nc, transpose, 0), maximize_)]

\* AugmentingPath, the body of the for loop for column j = remaining[it].
\* c: what the search only reads (nc, cost, u, v, row4col); st: what it updates.
\* r = min_val + cost[i * nc + j] - u[i] - v[j]; a smaller r is recorded in
\* shortest_path_costs and path.
RelaxColumn(c, st, j, r) ==
  IF FLess(r, st.shortest_path_costs[j])
    THEN [st EXCEPT !.path = [@ EXCEPT ![j] = st.i],
                    !.shortest_path_costs = [@ EXCEPT ![j] = r]]
    ELSE st

\* The test that makes column j the lowest so far.
TakeLowest(c, st, it, j) ==
  IF \/ FLess(st.shortest_path_costs[j], st.lowest)
     \/ (FEq(st.shortest_path_costs[j], st.lowest) /\ c.row4col[j] = -1)
    THEN [st EXCEPT !.lowest = st.shortest_path_costs[j], !.index = it]
    ELSE st

ScanColumn(c, st, it, j) ==
  TakeLowest(c,
             RelaxColumn(c, st, j,
                         FSub(FSub(FAdd(st.min_val, c.cost[st.i * c.nc + j]), c.u[st.i]),
                              c.v[j])),
             it, j)

\* The for loop of AugmentingPath over remaining[0..num_remaining-1].
RECURSIVE ScanRemaining(_, _, _)
ScanRemaining(c, st, it) ==
  IF it >= st.num_remaining THEN st
  ELSE ScanRemaining(c, ScanColumn(c, st, it, st.remaining[it]), it + 1)

\* The end of one round of the while loop, for the column j = remaining[index]:
\* j is the sink when it is free, else the search goes on from the row that holds
\* it; j is marked in SC and removed from remaining.
VisitColumn(c, st, j) ==
  [st EXCEPT !.min_val = st.lowest,
             !.sink = IF c.row4col[j] = -1 THEN j ELSE -1,
             !.i = IF c.row4col[j] = -1 THEN @ ELSE c.row4col[j],
             !.SC = [@ EXCEPT ![j] = TRUE],
             !.remaining = [@ EXCEPT ![st.index] = st.remaining[st.num_remaining - 1]],
             !.num_remaining = @ - 1]

\* The while (sink == -1) loop of AugmentingPath; st is the state after the for
\* loop in AfterScan, after the round in NextRound. rounds counts the executions
\* of the loop body.
RECURSIVE SearchLoop(_, _)
\* The loop without its test of sink: it goes on until no column is left.
NextRound_NoSinkTest(c, st) ==
  SearchLoop(c, st)

NextRound(c, st) ==
  IF st.sink # -1 THEN st ELSE SearchLoop(c, st)

AfterScan(c, st) ==
  IF FEq(st.lowest, INFINITY)
    THEN [st EXCEPT !.min_val = st.lowest, !.sink = -1]
    ELSE NextRound(c, VisitColumn(c, st, st.remaining[st.index]))

SearchLoop(c, st) ==
  AfterScan(c,
            ScanRemaining(c,
                          [st EXCEPT !.index = -1, !.lowest = INFINITY,
                                     !.SR = [@ EXCEPT ![st.i] = TRUE],
                                     !.rounds = @ + 1],
                          0))

\* AugmentingPath for row i: the sink column (or -1), min_val, and the updated
\* path, SR, SC and shortest_path_costs.
AugmentingPath(nr, nc, cost, u, v, path, row4col, i) ==
  SearchLoop([nc |-> nc, cost |-> cost, u |-> u, v |-> v, row4col |-> row4col],
             [i |-> i, min_val |-> 0, sink |-> -1, index |-> -1, lowest |-> INFINITY,
              rounds |-> 0, num_remaining |-> nc,
              remaining |-> [it \in 0..(nc - 1) |-> nc - it - 1],
              path |-> path,
              SR |-> Vec(nr, FALSE), SC |-> Vec(nc, FALSE),
              shortest_path_costs |-> Vec(nc, INFINITY)])

\* AugmentPreviousSolution without the walk back along path: the sink column is
\* given to cur_row and the rows matched before keep their columns.
AugmentPreviousSolution_SinkOnly(j, cur_row, path, row4col, col4row) ==
  [row4col |-> [row4col EXCEPT ![j] = cur_row],
   col4row |-> [col4row EXCEPT ![cur_row] = j],
   steps |-> 1]

\* One more execution of the body of the walk.
Stepped(aug) == [aug EXCEPT !.steps = @ + 1]

\* AugmentPreviousSolution: walk path back from the sink j to cur_row; with
\* i = path[j], row4col[j] = i and std::swap(col4row[i], j). steps counts the
\* executions of the loop body.
RECURSIVE AugmentPreviousSolution(_, _, _, _, _)
AugmentPreviousSolution(j, cur_row, path, row4col, col4row) ==
  IF path[j] = cur_row
    THEN [row4col |-> [row4col EXCEPT ![j] = path[j]],
          col4row |-> [col4row EXCEPT ![path[j]] = j],
          steps |-> 1]
    ELSE Stepped(AugmentPreviousSolution(col4row[path[j]], cur_row, path,
                                         [row4col EXCEPT ![j] = path[j]],
                                         [col4row EXCEPT ![path[j]] = j]))

\* The index vector of PostProcess after std::sort by col4row (its values are
\* distinct): position k holds the row with the k-th smallest column.
SortedIndex(col4row) ==
  [k \in DOMAIN col4row |->
     CHOOSE val \in DOMAIN col4row :
       Cardinality({w \in DOMAIN col4row : col4row[w] < col4row[val]}) = k]

\* PostProcess without the loop that pads with -1.
PadLoop_NoPadding(arr, i, element_num) == arr

\* The padding loop of PostProcess: a[i] = b[i] = -1 from offset up to element_num.
RECURSIVE PadLoop(_, _, _)
PadLoop(arr, i, element_num) ==
  IF i >= element_num THEN arr ELSE PadLoop(Write(arr, i, -1), i + 1, element_num)

\* The writes of PostProcess to a and b, index being the sorted index vector.
WriteOutputs(index, col4row, transpose, nr, nc, element_num) ==
  [a |-> PadLoop(IF transpose THEN [k \in DOMAIN col4row |-> col4row[index[k]]]
                 ELSE [k \in 0..(nr - 1) |-> k],
                 Min2(nr, nc), element_num),
   b |-> PadLoop(IF transpose THEN [k \in DOMAIN col4row |-> index[k]]
                 ELSE [k \in 0..(nr - 1) |-> col4row[k]],
                 Min2(nr, nc), element_num)]

\* PostProcess: the writes to a and b.
PostProcess(col4row, transpose, nr, nc, element_num) ==
  WriteOutputs(SortedIndex(col4row), col4row, transpose, nr, nc, element_num)

\* Solve's updates of u and v after AugmentingPath returned ap for cur_row; col4row
\* is still the one from before the augmentation.
UpdateDuals(d, ap, cur_row) ==
  [d EXCEPT
     !.u = [i \in DOMAIN d.u |->
              IF i = cur_row THEN FAdd(d.u[i], ap.min_val)
              ELSE IF ap.SR[i]
                THEN FAdd(d.u[i], FSub(ap.min_val, ap.shortest_path_costs[d.col4row[i]]))
              ELSE d.u[i]],
     !.v = [j \in DOMAIN d.v |->
              IF ap.SC[j] THEN FSub(d.v[j], FSub(ap.min_val, ap.shortest_path_costs[j]))
              ELSE d.v[j]],
     !.rounds = Append(@, ap.rounds)]

\* The solver's vectors after the row: duals from d, path from AugmentingPath,
\* row4col and col4row from AugmentPreviousSolution. rounds and steps keep, row
\* by row, how often the search loop and the walk back ran.
AfterRow(d, path, aug) ==
  [u |-> d.u, v |-> d.v, path |-> path, row4col |-> aug.row4col, col4row |-> aug.col4row,
   rounds |-> d.rounds, steps |-> Append(d.steps, aug.steps)]

\* The for (cur_row ...) loop of Solve; AugmentRow is its body after the call of
\* AugmentingPath, which returned ap.
RECURSIVE RowLoop(_, _, _, _, _)
AugmentRow(nr, nc, cost, d, cur_row, ap) ==
  IF ap.sink < 0
    THEN [ok |-> FALSE, col4row |-> d.col4row,
          rounds |-> Append(d.rounds, ap.rounds), steps |-> d.steps]
  ELSE RowLoop(nr, nc, cost,
               AfterRow(UpdateDuals(d, ap, cur_row), ap.path,
                        AugmentPreviousSolution(ap.sink, cur_row, ap.path,
                                                d.row4col, d.col4row)),
               cur_row + 1)

RowLoop(nr, nc, cost, d, cur_row) ==
  IF cur_row >= nr
    THEN [ok |-> TRUE, col4row |-> d.col4row, rounds |-> d.rounds, steps |-> d.steps]
  ELSE AugmentRow(nr, nc, cost, d, cur_row,
                  AugmentingPath(nr, nc, cost, d.u, d.v, d.path, d.row4col, cur_row))

\* What Solve returns and has written to a and b.
Failed == [ok |-> FALSE, a |-> NoWrites, b |-> NoWrites]
Solved(out) == [ok |-> TRUE, a |-> out.a, b |-> out.b]

\* Solve after its row loop returned rows.
SolveOutputs(rows, transpose, nr, nc, element_num) ==
  IF ~rows.ok THEN Failed
  ELSE Solved(PostProcess(rows.col4row, transpose, nr, nc, element_num))

\* The row loop of Solve from its initial vectors, ra being nr, nc and cost after
\* ReArrange.
ArrangedRows(ra) ==
  RowLoop(ra.nr, ra.nc, ra.temp,
          [u |-> Vec(ra.nr, 0), v |-> Vec(ra.nc, 0),
           path |-> Vec(ra.nc, -1), row4col |-> Vec(ra.nc, -1),
           col4row |-> Vec(ra.nr, -1), rounds |-> <<>>, steps |-> <<>>],
          0)

\* Solve from check_value on.
SolveArranged(ra, transpose, element_num) ==
  IF ~check_value(ra.temp, ra.nr, ra.nc) THEN Failed
  ELSE SolveOutputs(ArrangedRows(ra), transpose, ra.nr, ra.nc, element_num)

\* nr, nc and cost as Solve hands them to check_value and the row loop.
Arranged(nr0, nc0, raw_nc, cost0, maximize_) ==
  IF nc0 < nr0 \/ maximize_
    THEN ReArrange(nr0, nc0, raw_nc, cost0, nc0 < nr0, maximize_)
    ELSE [nr |-> nr0, nc |-> nc0, temp |-> cost0]

\* Solve(nr, nc, raw_nc, cost, maximize, a, b): nc is the dimension limit.
Solve(nr0, nc0, raw_nc, cost0, maximize_) ==
  IF nr0 = 0 \/ nc0 = 0 THEN [ok |-> TRUE, a |-> NoWrites, b |-> NoWrites]
  ELSE SolveArranged(Arranged(nr0, nc0, raw_nc, cost0, maximize_),
                     nc0 < nr0, Min2(nr0, raw_nc))

\* How often the loops of that call of Solve ran: for each row that the row loop
\* reached, the rounds of the search loop of AugmentingPath and the steps of the
\* walk of AugmentPreviousSolution, with the nr and nc the loops ran on.
NoEffort == [nr |-> 0, nc |-> 0, rounds |-> <<>>, steps |-> <<>>]
RowsEffort(ra, rows) ==
  [nr |-> ra.nr, nc |-> ra.nc, rounds |-> rows.rounds, steps |-> rows.steps]
ArrangedEffort(ra) ==
  IF ~check_value(ra.temp, ra.nr, ra.nc) THEN NoEffort
  ELSE RowsEffort(ra, ArrangedRows(ra))
SolveEffort(nr0, nc0, raw_nc, cost0, maximize_) ==
  IF nr0 = 0 \/ nc0 = 0 THEN NoEffort
  ELSE ArrangedEffort(Arranged(nr0, nc0, raw_nc, cost0, maximize_))

Shapes == {sh \in (1..MaxDim) \X (1..MaxDim) : sh[1] * sh[2] <= MaxCells}
\* Matrices with NaN and infinite entries are drawn for the shapes of at most
\* MaxSpecialCells cells.
SpecialShapes == {sh \in Shapes : sh[1] * sh[2] <= MaxSpecialCells}
\* A 3 x 3 matrix with a unique optimum (total cost 5); all 0/1 matrices of that
\* shape are drawn as well.
ExampleMatrix == <<4, 1, 3, 2, 0, 5, 3, 2, 2>>
AsVec(seq) == [k \in 0..(Len(seq) - 1) |-> seq[k + 1]]

NotLaunched == [status |-> "none", row_ind |-> NoWrites, col_ind |-> NoWrites]

LsaIdle ==
  /\ cost_matrix_shape_ = <<0, 0>>
  /\ cost_matrix = NoWrites
  /\ dimension_limit = INT64_MAX
  /\ maximize = FALSE
  /\ lsa_result = NotLaunched
  /\ lsa_effort = NoEffort

LsaInit ==
  /\ \/ /\ cost_matrix_shape_ \in Shapes
        /\ cost_matrix \in [0..(cost_matrix_shape_[1] * cost_matrix_shape_[2] - 1) -> CostValues]
     \/ /\ cost_matrix_shape_ \in SpecialShapes
        /\ cost_matrix \in [0..(cost_matrix_shape_[1] * cost_matrix_shape_[2] - 1) -> SpecialValues]
     \/ /\ cost_matrix_shape_ = <<3, 3>>
        /\ \/ cost_matrix = AsVec(ExampleMatrix)
           \/ cost_matrix \in [0..8 -> {0, 1}]
  /\ dimension_limit \in {INT64_MAX} \cup (0..(cost_matrix_shape_[2] + 1))
  /\ maximize \in BOOLEAN
  /\ lsa_result = NotLaunched
  /\ lsa_effort = NoEffort

\* What LaunchKernel returns and leaves in row_ind and col_ind, r being Solve's
\* result.
Launched(r) ==
  [status |-> IF r.ok THEN "true" ELSE "false", row_ind |-> r.a, col_ind |-> r.b]

\* LinearSumAssignmentCpuKernelMod::LaunchKernel; nr = cost_matrix_shape_[0] and
\* nc = cost_matrix_shape_[1] of the code are the tuple's first and second entry.
LaunchKernel ==
  /\ lsa_result.status = "none"
  /\ IF dimension_limit # INT64_MAX /\ dimension_limit > cost_matrix_shape_[2]
       THEN /\ lsa_result' = [status |-> "exception", row_ind |-> NoWrites,
                               col_ind |-> NoWrites]
            /\ lsa_effort' = NoEffort
     ELSE IF dimension_limit # INT64_MAX /\ dimension_limit <= 0
       THEN /\ lsa_result' = [status |-> "false", row_ind |-> NoWrites, col_ind |-> NoWrites]
            /\ lsa_effort' = NoEffort
     ELSE /\ lsa_result' =
               Launched(Solve(cost_matrix_shape_[1],
                              IF dimension_limit = INT64_MAX THEN cost_matrix_shape_[2]
                              ELSE dimension_limit,
                              cost_matrix_shape_[2], cost_matrix, maximize))
          /\ lsa_effort' =
               SolveEffort(cost_matrix_shape_[1],
                           IF dimension_limit = INT64_MAX THEN cost_matrix_shape_[2]
                           ELSE dimension_limit,
                           cost_matrix_shape_[2], cost_matrix, maximize)
  /\ UNCHANGED <<cost_matrix_shape_, cost_matrix, dimension_limit, maximize>>

-----------------------------------------------------------------------------
\* ArithmeticCpuTypeFunc (plugin/device/cpu/kernel/arithmetic_cpu_kernel.cc):
\* the division kernels. A real value is an integer, NaN or an infinity, as
\* above; a complex value is a pair <<re, im>>. Tensors are functions on
\* 0..n-1 in row-major order.

RealTypes == {"float32", "int8", "uint8"}
ComplexTypes == {"complex64"}

\* std::numeric_limits<T> of the real types.
has_infinity(T) == T = "float32"
quiet_NaN(T) == IF T = "float32" THEN NaN ELSE 0
INT8_MAX == 127
INT8_MIN == -128
UINT8_MAX == 255
limits_max(T) == IF T = "uint8" THEN UINT8_MAX ELSE INT8_MAX
limits_min(T) == IF T = "uint8" THEN 0 ELSE INT8_MIN

\* The value the kernels write for a complex zero divisor.
ComplexNaN == <<NaN, NaN>>
ComplexZero == <<0, 0>>

\* The operand values of the model. Every quotient of a dividend by a non-zero
\* divisor of the float and complex sets is a whole number, so that the model's
\* integers represent it exactly.
Dividends(T) ==
  IF T = "float32" THEN {-2, 0, 2, NaN}
  ELSE IF T = "int8" THEN {-2, 0, 3}
  ELSE IF T = "uint8" THEN {0, 2}
  ELSE {ComplexZero, <<2, 0>>, <<0, -2>>}
Divisors(T) ==
  IF T = "float32" THEN {-2, 0, 1}
  ELSE IF T = "int8" THEN {-2, 0, 1}
  ELSE IF T = "uint8" THEN {0, 2}
  ELSE {ComplexZero, <<1, 0>>, <<0, 1>>}
\* What an output buffer may hold before the kernel writes it.
Unwritten(T) == IF T \in ComplexTypes THEN {ComplexNaN, <<7, 7>>} ELSE {NaN, 7}

MaxQuotient == 8
ExactDiv(n, d) == CHOOSE q \in (-MaxQuotient)..MaxQuotient : q * d = n
\* dividend / divisor of C++ for a non-zero divisor: exact on float, truncated
\* towards zero on the integer types.
Quotient(T, dividend, divisor) ==
  IF IsNaN(dividend) THEN NaN
  ELSE IF T = "float32" THEN ExactDiv(dividend, divisor)
  ELSE IF (dividend < 0) = (divisor < 0) THEN dividend \div divisor
  ELSE -((-dividend) \div divisor)
\* static_cast<T>(floor(static_cast<double>(dividend) / static_cast<double>(divisor)))
FloorQuotient(T, dividend, divisor) ==
  IF IsNaN(dividend) THEN NaN ELSE dividend \div divisor
\* dividend / divisor of std::complex for a non-zero divisor.
ComplexQuotient(dividend, divisor) ==
  <<ExactDiv(dividend[1] * divisor[1] + dividend[2] * divisor[2],
             divisor[1] * divisor[1] + divisor[2] * divisor[2]),
    ExactDiv(dividend[2] * divisor[1] - dividend[1] * divisor[2],
             divisor[1] * divisor[1] + divisor[2] * divisor[2])>>

\* The branch `divisor == zero` of ElementRealDiv.
ZeroDivisor_NegativeInfinityForZero(T, dividend) ==
  IF has_infinity(T)
    THEN (IF FLess(0, dividend) THEN INFINITY ELSE -INFINITY)
  ELSE (IF FLess(0, dividend) THEN limits_max(T) ELSE limits_min(T))
ZeroDivisor(T, dividend) ==
  IF FEq(dividend, 0) THEN quiet_NaN(T)
  ELSE IF has_infinity(T)
    THEN (IF FLess(0, dividend) THEN INFINITY ELSE -INFINITY)
  ELSE (IF FLess(0, dividend) THEN limits_max(T) ELSE limits_min(T))

\* ElementRealDiv over out[0 .. size - 1]: idx_1 = i * delta_1, idx_2 = i * delta_2.
ElementRealDiv(T, in1, in2, out, size, delta_1, delta_2) ==
  [i \in DOMAIN out |->
     IF i >= size THEN out[i]
     ELSE IF FEq(in2[i * delta_2], 0) THEN ZeroDivisor(T, in1[i * delta_1])
     ELSE Quotient(T, in1[i * delta_1], in2[i * delta_2])]

\* ElementRealDivComplex.
ElementRealDivComplex(in1, in2, out, size, delta_1, delta_2) ==
  [i \in DOMAIN out |->
     IF i >= size THEN out[i]
     ELSE IF in2[i * delta_2] = ComplexZero THEN ComplexNaN
     ELSE ComplexQuotient(in1[i * delta_1], in2[i * delta_2])]

\* Number of elements of a shape.
SizeOf(shape) == IF Len(shape) = 1 THEN shape[1] ELSE shape[1] * shape[2]
Max2(x, y) == IF x < y THEN y ELSE x
\* output_shape_: the broadcast of the two input shapes, which have the same rank.
BroadcastShape(shape1, shape2) == [d \in DOMAIN shape1 |-> Max2(shape1[d], shape2[d])]
\* BroadcastIterator::GetInputPosA / GetInputPosB at output position i: the
\* row-major offset in the input, a dimension of size 1 being repeated.
InputPos(shape, out_shape, i) ==
  IF Len(shape) = 1 THEN (IF shape[1] = 1 THEN 0 ELSE i)
  ELSE (IF shape[1] = 1 THEN 0 ELSE i \div out_shape[2]) * shape[2]
       + (IF shape[2] = 1 THEN 0 ELSE i % out_shape[2])

\* ArithmeticCpuTypeFunc<T>::RealDiv
RealDiv(T, shape1, shape2, in1, in2, out) ==
  IF shape1 = shape2 THEN ElementRealDiv(T, in1, in2, out, SizeOf(BroadcastShape(shape1, shape2)), 1, 1)
  ELSE IF SizeOf(shape1) = 1
    THEN ElementRealDiv(T, in1, in2, out, SizeOf(BroadcastShape(shape1, shape2)), 0, 1)
  ELSE IF SizeOf(shape2) = 1
    THEN ElementRealDiv(T, in1, in2, out, SizeOf(BroadcastShape(shape1, shape2)), 1, 0)
  ELSE [i \in DOMAIN out |->
          IF FEq(in2[InputPos(shape2, BroadcastShape(shape1, shape2), i)], 0)
            THEN ZeroDivisor(T, in1[InputPos(shape1, BroadcastShape(shape1, shape2), i)])
          ELSE Quotient(T, in1[InputPos(shape1, BroadcastShape(shape1, shape2), i)],
                        in2[InputPos(shape2, BroadcastShape(shape1, shape2), i)])]

\* ArithmeticCpuTypeFunc<T>::RealDivComplex
RealDivComplex(shape1, shape2, in1, in2, out) ==
  IF shape1 = shape2
    THEN ElementRealDivComplex(in1, in2, out, SizeOf(BroadcastShape(shape1, shape2)), 1, 1)
  ELSE IF SizeOf(shape1) = 1
    THEN ElementRealDivComplex(in1, in2, out, SizeOf(BroadcastShape(shape1, shape2)), 0, 1)
  ELSE IF SizeOf(shape2) = 1
    THEN ElementRealDivComplex(in1, in2, out, SizeOf(BroadcastShape(shape1, shape2)), 1, 0)
  ELSE [i \in DOMAIN out |->
          IF in2[InputPos(shape2, BroadcastShape(shape1, shape2), i)] = ComplexZero
            THEN ComplexNaN
          ELSE ComplexQuotient(in1[InputPos(shape1, BroadcastShape(shape1, shape2), i)],
                               in2[InputPos(shape2, BroadcastShape(shape1, shape2), i)])]

\* ArithmeticCpuTypeFunc<T>::Div
Div(T, shape1, shape2, in1, in2, out) ==
  [i \in DOMAIN out |->
     IF FEq(in2[InputPos(shape2, BroadcastShape(shape1, shape2), i)], 0)
       THEN ZeroDivisor(T, in1[InputPos(shape1, BroadcastShape(shape1, shape2), i)])
     ELSE Quotient(T, in1[InputPos(shape1, BroadcastShape(shape1, shape2), i)],
                   in2[InputPos(shape2, BroadcastShape(shape1, shape2), i)])]

\* ArithmeticCpuTypeFunc<T>::DivComplex: for a zero divisor under a non-zero
\* dividend the loop continues without an assignment to out[i].
DivComplex(shape1, shape2, in1, in2, out) ==
  [i \in DOMAIN out |->
     IF in2[InputPos(shape2, BroadcastShape(shape1, shape2), i)] = ComplexZero
       THEN (IF in1[InputPos(shape1, BroadcastShape(shape1, shape2), i)] = ComplexZero
               THEN ComplexNaN
             ELSE out[i])
     ELSE ComplexQuotient(in1[InputPos(shape1, BroadcastShape(shape1, shape2), i)],
                          in2[InputPos(shape2, BroadcastShape(shape1, shape2), i)])]

\* ArithmeticCpuTypeFunc<T>::FloorDiv
FloorDiv(T, shape1, shape2, in1, in2, out) ==
  [i \in DOMAIN out |->
     IF FEq(in2[InputPos(shape2, BroadcastShape(shape1, shape2), i)], 0)
       THEN ZeroDivisor(T, in1[InputPos(shape1, BroadcastShape(shape1, shape2), i)])
     ELSE FloorQuotient(T, in1[InputPos(shape1, BroadcastShape(shape1, shape2), i)],
                        in2[InputPos(shape2, BroadcastShape(shape1, shape2), i)])]

\* The kernels InitComputeFunc registers for the division family: every one for
\* the real types, Div and RealDiv for the complex types.
DivisionKernels(T) ==
  IF T \in ComplexTypes THEN {"Div", "RealDiv"} ELSE {"Div", "RealDiv", "FloorDiv"}
\* compute_func_ as InitComputeFunc selects it, applied to the launch's buffers.
compute_func_(name, T, shape1, shape2, in1, in2, out) ==
  IF T \in ComplexTypes
    THEN (IF name = "Div" THEN DivComplex(shape1, shape2, in1, in2, out)
          ELSE RealDivComplex(shape1, shape2, in1, in2, out))
  ELSE IF name = "Div" THEN Div(T, shape1, shape2, in1, in2, out)
  ELSE IF name = "RealDiv" THEN RealDiv(T, shape1, shape2, in1, in2, out)
  ELSE FloorDiv(T, shape1, shape2, in1, in2, out)

\* The pairs of input shapes of the model: equal shapes, a one-element first or
\* second input, and two shapes that broadcast to <<2, 2>>.
ShapePairs == {<<(<<2>>), (<<2>>)>>, <<(<<1>>), (<<2>>)>>, <<(<<2>>), (<<1>>)>>,
               <<(<<2, 1>>), (<<1, 2>>)>>}

ArithIdle ==
  /\ kernel_name_ = "none"
  /\ dtype = "none"
  /\ input_shape1_ = <<>>
  /\ input_shape2_ = <<>>
  /\ input1 = NoWrites
  /\ input2 = NoWrites
  /\ output = NoWrites
  /\ arith_launched = FALSE

ArithInit ==
  /\ dtype \in RealTypes \cup ComplexTypes
  /\ kernel_name_ \in DivisionKernels(dtype)
  /\ \E p \in ShapePairs : input_shape1_ = p[1] /\ input_shape2_ = p[2]
  /\ input1 \in [0..(SizeOf(input_shape1_) - 1) -> Dividends(dtype)]
  /\ input2 \in [0..(SizeOf(input_shape2_) - 1) -> Divisors(dtype)]
  /\ \E g \in Unwritten(dtype) :
       output = Vec(SizeOf(BroadcastShape(input_shape1_, input_shape2_)), g)
  /\ arith_launched = FALSE

\* ArithmeticCpuTypeFunc<T>::RunFunc: compute_func_(this, input1, input2, output).
RunFunc ==
  /\ ~arith_launched
  /\ output' = compute_func_(kernel_name_, dtype, input_shape1_, input_shape2_,
                             input1, input2, output)
  /\ arith_launched' = TRUE
  /\ UNCHANGED <<kernel_name_, dtype, input_shape1_, input_shape2_, input1, input2>>

-----------------------------------------------------------------------------
\* ArithmeticCpuTypeFunc<T>::FloorMod, computed in double as the code does. The
\* operands of the model are whole numbers m * 2^e, which float and int64 hold
\* exactly; a magnitude is a sequence of base-2^15 digits, least significant
\* first and without leading zero digits, so that magnitudes beyond 2^31 and the
\* rounding of double to 53 significant bits are represented exactly.

LimbBits == 15
LimbBase == 32768
DoubleMantissaBits == 53
FloatMantissaBits == 24

RECURSIVE Pow2(_)
Pow2(k) == IF k = 0 THEN 1 ELSE 2 * Pow2(k - 1)

RECURSIVE Trim(_)
Trim(s) == IF s = <<>> THEN s
           ELSE IF s[Len(s)] = 0 THEN Trim(SubSeq(s, 1, Len(s) - 1)) ELSE s

RECURSIVE BigOfNat(_)
BigOfNat(n) == IF n = 0 THEN <<>> ELSE <<n % LimbBase>> \o BigOfNat(n \div LimbBase)

Digit(s, i) == IF i <= Len(s) THEN s[i] ELSE 0

RECURSIVE BigAddFrom(_, _, _, _)
BigAddFrom(a, b, i, carry) ==
  IF i > Len(a) /\ i > Len(b) THEN BigOfNat(carry)
  ELSE <<(Digit(a, i) + Digit(b, i) + carry) % LimbBase>>
       \o BigAddFrom(a, b, i + 1, (Digit(a, i) + Digit(b, i) + carry) \div LimbBase)
BigAdd(a, b) == Trim(BigAddFrom(a, b, 1, 0))

\* a - b for a >= b.
RECURSIVE BigSubFrom(_, _, _, _)
BigSubFrom(a, b, i, borrow) ==
  IF i > Len(a) THEN <<>>
  ELSE <<(a[i] - Digit(b, i) - borrow + LimbBase) % LimbBase>>
       \o BigSubFrom(a, b, i + 1, IF a[i] - Digit(b, i) - borrow < 0 THEN 1 ELSE 0)
BigSub(a, b) == Trim(BigSubFrom(a, b, 1, 0))

\* -1, 0 or 1 as a < b, a = b or a > b.
RECURSIVE BigCmpFrom(_, _, _)
BigCmpFrom(a, b, i) ==
  IF i = 0 THEN 0
  ELSE IF a[i] < b[i] THEN -1
  ELSE IF a[i] > b[i] THEN 1
  ELSE BigCmpFrom(a, b, i - 1)
BigCmp(a, b) ==
  IF Len(a) < Len(b) THEN -1
  ELSE IF Len(a) > Len(b) THEN 1
  ELSE BigCmpFrom(a, b, Len(a))

\* a * m for 0 <= m < LimbBase.
RECURSIVE BigMulFrom(_, _, _, _)
BigMulFrom(a, m, i, carry) ==
  IF i > Len(a) THEN BigOfNat(carry)
  ELSE <<(a[i] * m + carry) % LimbBase>>
       \o BigMulFrom(a, m, i + 1, (a[i] * m + carry) \div LimbBase)
BigMulSmall(a, m) == Trim(BigMulFrom(a, m, 1, 0))

\* floor(a / d) and a mod d for 0 < d < LimbBase, from the top digit down.
RECURSIVE BigDivFrom(_, _, _, _)
BigDivFrom(a, d, i, rem) ==
  IF i = 0 THEN <<>>
  ELSE BigDivFrom(a, d, i - 1, (rem * LimbBase + a[i]) % d)
       \o <<(rem * LimbBase + a[i]) \div d>>
BigDivSmall(a, d) == Trim(BigDivFrom(a, d, Len(a), 0))
RECURSIVE BigModFrom(_, _, _, _)
BigModFrom(a, d, i, rem) ==
  IF i = 0 THEN rem ELSE BigModFrom(a, d, i - 1, (rem * LimbBase + a[i]) % d)
BigModSmall(a, d) == BigModFrom(a, d, Len(a), 0)

BigShiftLeft(a, k) ==
  IF a = <<>> THEN a
  ELSE [i \in 1..(k \div LimbBits) |-> 0] \o BigMulSmall(a, Pow2(k % LimbBits))
BigShiftRight(a, k) ==
  IF Len(a) <= k \div LimbBits THEN <<>>
  ELSE BigDivSmall(SubSeq(a, (k \div LimbBits) + 1, Len(a)), Pow2(k % LimbBits))

RECURSIVE BitLen(_)
BitLen(n) == IF n = 0 THEN 0 ELSE 1 + BitLen(n \div 2)
BigBitLen(a) == IF a = <<>> THEN 0 ELSE LimbBits * (Len(a) - 1) + BitLen(a[Len(a)])
BigIsOdd(a) == a # <<>> /\ a[1] % 2 = 1

\* t or t + 1, as round-to-nearest-even decides for a discarded part that
\* compares as cmp (-1, 0, 1) with half a unit of t.
RoundNearestEven(t, cmp) ==
  IF cmp > 0 \/ (cmp = 0 /\ BigIsOdd(t)) THEN BigAdd(t, <<1>>) ELSE t

\* The magnitude a rounded to a multiple of 2^g, g >= 1.
RoundAt(a, g) ==
  BigShiftLeft(RoundNearestEven(BigShiftRight(a, g),
                                BigCmp(BigSub(a, BigShiftLeft(BigShiftRight(a, g), g)),
                                       BigShiftLeft(<<1>>, g - 1))),
               g)
\* The magnitude a rounded to `bits` significant bits.
RoundTo(a, bits) == IF BigBitLen(a) <= bits THEN a ELSE RoundAt(a, BigBitLen(a) - bits)

\* A signed whole number.
Signed(neg, mag) == [neg |-> neg /\ mag # <<>>, mag |-> mag]
SignedOfInt(n) == Signed(n < 0, BigOfNat(IF n < 0 THEN -n ELSE n))
\* a + b, exactly.
SignedAdd(a, b) ==
  IF a.neg = b.neg THEN Signed(a.neg, BigAdd(a.mag, b.mag))
  ELSE IF BigCmp(a.mag, b.mag) >= 0 THEN Signed(a.neg, BigSub(a.mag, b.mag))
  ELSE Signed(b.neg, BigSub(b.mag, a.mag))
SignedNeg(a) == Signed(~a.neg, a.mag)
\* The double nearest to the whole number a.
ToDouble(a) == Signed(a.neg, RoundTo(a.mag, DoubleMantissaBits))

\* The number of fraction bits of the double nearest to X / Y, for a quotient
\* below 2^53: the least s at which floor(X * 2^s / Y) has 53 bits.
RECURSIVE FractionBits(_, _, _)
FractionBits(X, Y, s) ==
  IF BigBitLen(BigDivSmall(BigShiftLeft(X, s), Y)) >= DoubleMantissaBits THEN s
  ELSE FractionBits(X, Y, s + 1)

\* |x / y| in double for a quotient of at least 2^52, a whole number: X / Y
\* rounded to a multiple of 2^g.
LargeQuotient(X, Y, g) ==
  BigShiftLeft(
    RoundNearestEven(BigShiftRight(BigDivSmall(X, Y), g),
                     BigCmp(BigMulSmall(BigSub(X, BigMulSmall(BigShiftLeft(BigShiftRight(BigDivSmall(X, Y), g), g), Y)), 2),
                            BigShiftLeft(BigOfNat(Y), g))),
    g)
\* |x / y| in double for a smaller quotient, in units of 2^-s.
ScaledQuotient(X, Y, s) ==
  RoundNearestEven(BigDivSmall(BigShiftLeft(X, s), Y),
                   IF 2 * BigModSmall(BigShiftLeft(X, s), Y) > Y THEN 1
                   ELSE IF 2 * BigModSmall(BigShiftLeft(X, s), Y) = Y THEN 0 ELSE -1)
\* floor of the signed value with magnitude N * 2^-s.
FloorScaled(neg, N, s) ==
  IF ~neg \/ BigShiftLeft(BigShiftRight(N, s), s) = N THEN Signed(neg, BigShiftRight(N, s))
  ELSE Signed(TRUE, BigAdd(BigShiftRight(N, s), <<1>>))

\* floor(x / y) of the doubles x and y, y a non-zero whole number below 2^15 in
\* magnitude: the division rounds to double, then floor.
FloorOfQuotient(x, y) ==
  IF x.mag = <<>> THEN Signed(FALSE, <<>>)
  ELSE IF BigBitLen(BigDivSmall(x.mag, IF y < 0 THEN -y ELSE y)) >= DoubleMantissaBits
    THEN Signed(x.neg # (y < 0),
                LargeQuotient(x.mag, IF y < 0 THEN -y ELSE y,
                              BigBitLen(BigDivSmall(x.mag, IF y < 0 THEN -y ELSE y))
                                - DoubleMantissaBits))
  ELSE FloorScaled(x.neg # (y < 0),
                   ScaledQuotient(x.mag, IF y < 0 THEN -y ELSE y,
                                  FractionBits(x.mag, IF y < 0 THEN -y ELSE y, 0)),
                   FractionBits(x.mag, IF y < 0 THEN -y ELSE y, 0))

\* k * y in double.
TimesDouble(k, y) ==
  ToDouble(Signed(k.neg # (y < 0), BigMulSmall(k.mag, IF y < 0 THEN -y ELSE y)))
\* a - b and a + b in double.
MinusDouble(a, b) == ToDouble(SignedAdd(a, SignedNeg(b)))
PlusDouble(a, b) == ToDouble(SignedAdd(a, b))

\* static_cast<T> of a whole-number double within T's range.
CastTo(T, a) == IF T = "float32" THEN Signed(a.neg, RoundTo(a.mag, FloatMantissaBits)) ELSE a

\* res = x - floor(x / y) * y
FloorModRes(x, y) == MinusDouble(x, TimesDouble(FloorOfQuotient(x, y), y))
\* (std::abs(res) > 1e-9) && ((res < 0.0) != (y < 0.0)) ? res + y : res; a
\* whole number exceeds 1e-9 in magnitude exactly when it is not zero.
FloorModCorrect(T, res, y) ==
  CastTo(T, IF res.mag # <<>> /\ (res.neg # (y < 0)) THEN PlusDouble(res, SignedOfInt(y)) ELSE res)
\* One element of FloorMod: x = static_cast<double>(input1[..]), y likewise.
FloorModValue(T, x, y) == FloorModCorrect(T, FloorModRes(ToDouble(x), y), y)

MaxMantissa == 15
MaxDivisor == 13
BigExponent == 53
FloorModTypes == {"float32", "int64"}

\* The operand m * 2^e.
Operand(m, e) == Signed(m < 0, BigShiftLeft(BigOfNat(IF m < 0 THEN -m ELSE m), e))

FloorModIdle ==
  /\ floormod_dtype = "none"
  /\ floormod_x = <<0, 0>>
  /\ floormod_y = 0
  /\ floormod_out = Signed(FALSE, <<>>)
  /\ floormod_done = FALSE

FloorModInit ==
  /\ floormod_dtype \in FloorModTypes
  /\ floormod_x \in ((-MaxMantissa)..MaxMantissa) \X {0, BigExponent}
  /\ floormod_y \in ((-MaxDivisor)..MaxDivisor) \ {0}
  /\ floormod_out = Signed(FALSE, <<>>)
  /\ floormod_done = FALSE

\* FloorMod on one-element inputs.
FloorMod ==
  /\ ~floormod_done
  /\ floormod_done' = TRUE
  /\ floormod_out' = FloorModValue(floormod_dtype, Operand(floormod_x[1], floormod_x[2]),
                                   floormod_y)
  /\ UNCHANGED <<floormod_dtype, floormod_x, floormod_y>>

-----------------------------------------------------------------------------
\* MedianInferShape (core/ops/median.cc). A shape is a sequence of dimensions;
\* the code's axis i, counted from 0, is position i + 1 of the sequence.

MaxRank == 3
DimValues == {2, 3, 4}
ShapesOfRank(r) == [1..r -> DimValues]
InputShapes == UNION {ShapesOfRank(r) : r \in 0..MaxRank}

\* CheckAndConvertUtils::CheckInRange with kIncludeLeft: lo <= value < hi.
CheckInRange(value, lo, hi) == lo <= value /\ value < hi

\* The loop over i = 0 .. x_size - 1 that builds out, from position i on.
RECURSIVE OutLoop(_, _, _, _)
OutLoop(x_shape, axis, keepdim, i) ==
  IF i >= Len(x_shape) THEN <<>>
  ELSE (IF i = axis THEN (IF keepdim THEN <<1>> ELSE <<>>) ELSE <<x_shape[i + 1]>>)
       \o OutLoop(x_shape, axis, keepdim, i + 1)

MedianInferShape_AxisNotNormalised(x_shape, global_median, axis, keepdim) ==
  IF global_median THEN [status |-> "ok", out |-> <<>>]
  ELSE IF ~(IF Len(x_shape) = 0 THEN CheckInRange(axis, -1, 1)
            ELSE CheckInRange(axis, -Len(x_shape), Len(x_shape)))
    THEN [status |-> "error", out |-> <<>>]
  ELSE [status |-> "ok", out |-> OutLoop(x_shape, axis, keepdim, 0)]
\* MedianInferShape: the shape of both outputs, or the error CheckInRange raises.
MedianInferShape(x_shape, global_median, axis, keepdim) ==
  IF global_median THEN [status |-> "ok", out |-> <<>>]
  ELSE IF ~(IF Len(x_shape) = 0 THEN CheckInRange(axis, -1, 1)
            ELSE CheckInRange(axis, -Len(x_shape), Len(x_shape)))
    THEN [status |-> "error", out |-> <<>>]
  ELSE [status |-> "ok",
        out |-> OutLoop(x_shape, IF axis < 0 THEN axis + Len(x_shape) ELSE axis, keepdim, 0)]

MedianIdle ==
  /\ median_x_shape = <<>>
  /\ median_attrs = [global_median |-> TRUE, axis |-> 0, keep_dims |-> FALSE]
  /\ median_result = [status |-> "none", out |-> <<>>]

MedianInit ==
  /\ median_x_shape \in InputShapes
  /\ median_attrs \in [global_median : BOOLEAN, axis : (-(MaxRank + 1))..(MaxRank + 1),
                       keep_dims : BOOLEAN]
  /\ median_result = [status |-> "none", out |-> <<>>]

\* One call of MedianInferShape on the primitive's attributes.
MedianInfer ==
  /\ median_result.status = "none"
  /\ median_result' = MedianInferShape(median_x_shape, median_attrs.global_median,
                                       median_attrs.axis, median_attrs.keep_dims)
  /\ UNCHANGED <<median_x_shape, median_attrs>>

-----------------------------------------------------------------------------
\* The sparse constructors' inference (core/abstract/ops/prim_others.cc). A
\* tensor abstract is its element type and shape; the dense shape tuple is the
\* sequence of its values, with all_int telling whether every element type is
\* an Int. The code's index i of a vector is position i + 1 of the sequence.

MaxDenseRank == 3
IndexDtypes == {"Int32", "Int8", "Float32"}
IndptrDtypes == {"Int32", "Float32"}
IndptrShapes == {<<>>, <<3>>, <<4>>, <<3, 1>>}
IndicesShapes == {<<>>, <<2>>, <<3>>, <<2, 2>>, <<3, 2>>, <<2, 3>>, <<2, 2, 2>>}
ValuesShapes == {<<>>, <<2>>, <<3>>, <<2, 2>>, <<2, 0>>}
DenseEntries == {-1, 0, 2, 3}
DenseShapes == UNION {[1..n -> DenseEntries] : n \in 0..MaxDenseRank}
\* What a read past the end of a vector may give.
OutOfRangeValues == {0, 2, 3}

SparseOps == {"MakeRowTensor", "MakeCOOTensor", "MakeCSRTensor"}

Raise(error) == [status |-> error, abstract |-> "none"]
Return(abstract) == [status |-> "ok", abstract |-> abstract]

\* elem_type->isa<Int>()
IsInt(t) == t \in {"Int8", "Int16", "Int32", "Int64"}
\* CheckSparseIndicesDtype passes
IsSparseIndicesDtype(t) == t \in {"Int16", "Int32", "Int64"}
\* CheckSparseShape(shape_size, expected_dim, arg_name) passes
CheckSparseShape(shape_size, expected_dim) == shape_size = expected_dim
\* shape[i] of a std::vector: an arbitrary value oob when i is past the end.
At(shape, i, oob) == IF i < Len(shape) THEN shape[i + 1] ELSE oob

RECURSIVE Product(_)
Product(shape) == IF shape = <<>> THEN 1 ELSE Head(shape) * Product(Tail(shape))

\* InferImplMakeRowTensor
InferImplMakeRowTensor(indices, values_shp, dense_shape_vec, all_int, oob) ==
  IF ~IsInt(indices.dtype) THEN Raise("TypeError")
  ELSE IF Len(indices.shape) # 1 THEN Raise("TypeError")
  ELSE IF indices.shape[1] # At(values_shp, 0, oob) THEN Raise("TypeError")
  ELSE IF ~all_int THEN Raise("TypeError")
  ELSE IF Len(dense_shape_vec) # Len(values_shp) THEN Raise("TypeError")
  ELSE IF \E i \in 0..(Len(dense_shape_vec) - 1) :
            \/ dense_shape_vec[i + 1] < 0
            \/ (i # 0 /\ dense_shape_vec[i + 1] # values_shp[i + 1])
    THEN Raise("TypeError")
  ELSE Return("AbstractRowTensor")

\* InferImplMakeCOOTensor. std::min_element compares the ValuePtr elements of
\* shp, not their values, and min_elem <= 0 compares a pointer that is not null
\* with null; on an empty tuple it dereferences end(), after which the check
\* may or may not raise (min_elem_raises).
InferImplMakeCOOTensor(indices, values_shp, dense_shape_vec, all_int, min_elem_raises) ==
  IF ~IsSparseIndicesDtype(indices.dtype) THEN Raise("TypeError")
  ELSE IF ~CheckSparseShape(Len(indices.shape), 2) THEN Raise("ValueError")
  ELSE IF ~CheckSparseShape(Len(values_shp), 1) THEN Raise("ValueError")
  ELSE IF indices.shape[1] # values_shp[1] THEN Raise("ValueError")
  ELSE IF indices.shape[2] # 2 THEN Raise("ValueError")
  ELSE IF ~all_int THEN Raise("TypeError")
  ELSE IF dense_shape_vec = <<>> /\ min_elem_raises THEN Raise("ValueError")
  ELSE IF indices.shape[2] # Len(dense_shape_vec) THEN Raise("TypeError")
  ELSE IF \E i \in 1..Len(dense_shape_vec) : dense_shape_vec[i] <= 0 THEN Raise("TypeError")
  ELSE Return("AbstractCOOTensor")

\* InferImplMakeCSRTensor. GetValue<int64_t> raises on an element that is not
\* an integer.
InferImplMakeCSRTensor_NoIndptrLength(indptr, indices, values_shp, shape_vec, all_int, oob) ==
  IF ~IsSparseIndicesDtype(indptr.dtype) THEN Raise("TypeError")
  ELSE IF ~IsSparseIndicesDtype(indices.dtype) THEN Raise("TypeError")
  ELSE IF ~CheckSparseShape(Len(indptr.shape), 1) THEN Raise("ValueError")
  ELSE IF ~CheckSparseShape(Len(indices.shape), 1) THEN Raise("ValueError")
  ELSE IF indices.shape[1] # At(values_shp, 0, oob) THEN Raise("ValueError")
  ELSE IF ~all_int THEN Raise("Exception")
  ELSE IF Len(values_shp) + 1 # Len(shape_vec) THEN Raise("ValueError")
  ELSE IF \E i \in 0..(Len(shape_vec) - 1) :
            \/ shape_vec[i + 1] <= 0
            \/ (i > 1 /\ shape_vec[i + 1] # values_shp[i])
    THEN Raise("ValueError")
  ELSE IF Product(shape_vec) < At(values_shp, 0, oob) THEN Raise("ValueError")
  ELSE Return("AbstractCSRTensor")
InferImplMakeCSRTensor(indptr, indices, values_shp, shape_vec, all_int, oob) ==
  IF ~IsSparseIndicesDtype(indptr.dtype) THEN Raise("TypeError")
  ELSE IF ~IsSparseIndicesDtype(indices.dtype) THEN Raise("TypeError")
  ELSE IF ~CheckSparseShape(Len(indptr.shape), 1) THEN Raise("ValueError")
  ELSE IF ~CheckSparseShape(Len(indices.shape), 1) THEN Raise("ValueError")
  ELSE IF indices.shape[1] # At(values_shp, 0, oob) THEN Raise("ValueError")
  ELSE IF ~all_int THEN Raise("Exception")
  ELSE IF Len(values_shp) + 1 # Len(shape_vec) THEN Raise("ValueError")
  ELSE IF shape_vec[1] + 1 # indptr.shape[1] THEN Raise("ValueError")
  ELSE IF \E i \in 0..(Len(shape_vec) - 1) :
            \/ shape_vec[i + 1] <= 0
            \/ (i > 1 /\ shape_vec[i + 1] # values_shp[i])
    THEN Raise("ValueError")
  ELSE IF Product(shape_vec) < At(values_shp, 0, oob) THEN Raise("ValueError")
  ELSE Return("AbstractCSRTensor")

NoIndptr == [dtype |-> "Int32", shape |-> <<>>]

SparseIdle ==
  /\ sparse_op = "none"
  /\ sparse_args = [indptr |-> NoIndptr, indices |-> NoIndptr, values_shp |-> <<>>,
                    dense_shape |-> <<>>, all_int |-> TRUE]
  /\ sparse_result = [status |-> "none", abstract |-> "none"]

SparseInit ==
  /\ sparse_op \in SparseOps
  /\ sparse_args \in [indptr : IF sparse_op = "MakeCSRTensor"
                                 THEN [dtype : IndptrDtypes, shape : IndptrShapes]
                               ELSE {NoIndptr},
                      indices : [dtype : IndexDtypes, shape : IndicesShapes],
                      values_shp : ValuesShapes,
                      dense_shape : DenseShapes,
                      all_int : BOOLEAN]
  /\ sparse_result = [status |-> "none", abstract |-> "none"]

MakeRowTensor ==
  /\ sparse_op = "MakeRowTensor"
  /\ sparse_result.status = "none"
  /\ \E oob \in OutOfRangeValues :
       sparse_result' = InferImplMakeRowTensor(sparse_args.indices, sparse_args.values_shp,
                                               sparse_args.dense_shape, sparse_args.all_int, oob)
  /\ UNCHANGED <<sparse_op, sparse_args>>

MakeCOOTensor ==
  /\ sparse_op = "MakeCOOTensor"
  /\ sparse_result.status = "none"
  /\ \E min_elem_raises \in BOOLEAN :
       sparse_result' = InferImplMakeCOOTensor(sparse_args.indices, sparse_args.values_shp,
                                               sparse_args.dense_shape, sparse_args.all_int,
                                               min_elem_raises)
  /\ UNCHANGED <<sparse_op, sparse_args>>

MakeCSRTensor ==
  /\ sparse_op = "MakeCSRTensor"
  /\ sparse_result.status = "none"
  /\ \E oob \in OutOfRangeValues :
       sparse_result' = InferImplMakeCSRTensor(sparse_args.indptr, sparse_args.indices,
                                               sparse_args.values_shp, sparse_args.dense_shape,
                                               sparse_args.all_int, oob)
  /\ UNCHANGED <<sparse_op, sparse_args>>

-----------------------------------------------------------------------------
\* DropoutFwdGpuKernelMod (the dropout forward kernel, in
\* plugin/device/gpu/kernel/cuda_impl/cuda_ops/rmsprop_impl.cu).

\* The tiling constant of the fused kernel.
kDropoutTileSize == 4
MaxLaunches == 3
\* The input shapes of the model, by what Init asks of them: "null" is a shape
\* with a zero dimension (CHECK_SHAPE_NULL), "dynamic" a shape not yet known
\* (IsDynamic), "static" any other, with one of the element counts.
InputShapeKinds == {"null", "dynamic", "static"}
ElementCounts == {4, 6}
SeedAttrs == {0, 5}
TimeValues == {100}
OutputAttrs == {"none", "first", "second"}

DropoutIdle ==
  /\ is_null_input_ = FALSE
  /\ num_count_ = 0
  /\ use_fused_dropout_ = FALSE
  /\ only_use_first_output_ = FALSE
  /\ only_use_second_output_ = FALSE
  /\ states_init_ = FALSE
  /\ seed_ = 0
  /\ seed_offset_ = 0
  /\ fused_calls = <<>>

\* DropoutFwdGpuKernelMod(): ResetResource() and the member initialisers.
DropoutConstructed == DropoutIdle

\* The seed Init computes from the attributes Seed0 and Seed1 and time(NULL).
SeedOf(seed0, seed1, now) == IF seed0 # 0 THEN seed0 ELSE IF seed1 # 0 THEN seed1 ELSE now

\* DropoutFwdGpuKernelMod::Init on a node whose input shape is of the given
\* kind and has `shape` elements, with the given attributes.
DropoutFwdInit(kind, shape, seed0, seed1, now, attr) ==
  /\ is_null_input_' = (kind = "null")
  /\ IF kind \in {"null", "dynamic"}
       THEN UNCHANGED <<num_count_, use_fused_dropout_, only_use_first_output_,
                        only_use_second_output_, seed_, states_init_>>
     ELSE /\ num_count_' = shape
          /\ use_fused_dropout_' = (use_fused_dropout_ \/ shape % kDropoutTileSize = 0)
          /\ only_use_first_output_' =
               IF shape % kDropoutTileSize = 0 /\ attr = "first" THEN TRUE
               ELSE only_use_first_output_
          /\ only_use_second_output_' =
               IF shape % kDropoutTileSize = 0 /\ attr = "second" THEN TRUE
               ELSE only_use_second_output_
          /\ seed_' = SeedOf(seed0, seed1, now)
          /\ states_init_' = (states_init_ \/ ~use_fused_dropout_')
  /\ UNCHANGED <<seed_offset_, fused_calls>>

\* The arguments num_count_, seed_ and seed_offset_ that Launch passes to the
\* fused kernel it selects (FusedDropoutForwardOnlyOutput, ...OnlyMask or
\* FusedDropoutForward, which take the same three).
FusedCall == [num_count |-> num_count_, seed |-> seed_, seed_offset |-> seed_offset_]

Launch_OffsetNotAdvanced ==
  /\ Len(fused_calls) < MaxLaunches
  /\ IF ~is_null_input_ /\ use_fused_dropout_
       THEN /\ fused_calls' = Append(fused_calls, FusedCall)
            /\ seed_offset_' = seed_offset_
     ELSE UNCHANGED <<fused_calls, seed_offset_>>
  /\ UNCHANGED <<is_null_input_, num_count_, use_fused_dropout_, only_use_first_output_,
                 only_use_second_output_, seed_, states_init_>>
\* DropoutFwdGpuKernelMod::Launch. The curand path changes none of the members.
Launch ==
  /\ Len(fused_calls) < MaxLaunches
  /\ IF ~is_null_input_ /\ use_fused_dropout_
       THEN /\ fused_calls' = Append(fused_calls, FusedCall)
            /\ seed_offset_' = seed_offset_ + num_count_
     ELSE UNCHANGED <<fused_calls, seed_offset_>>
  /\ UNCHANGED <<is_null_input_, num_count_, use_fused_dropout_, only_use_first_output_,
                 only_use_second_output_, seed_, states_init_>>

\* DropoutFwdGpuKernelMod::ResetResource: seed_, seed_offset_ and states_init_
\* are not among the members it resets.
ResetResource ==
  /\ is_null_input_' = FALSE
  /\ num_count_' = 0
  /\ use_fused_dropout_' = FALSE
  /\ only_use_first_output_' = FALSE
  /\ only_use_second_output_' = FALSE
  /\ UNCHANGED <<seed_, seed_offset_, states_init_, fused_calls>>

-----------------------------------------------------------------------------
\* PynativeExecutor::GetInstance (pipeline/pynative/pynative_execute.h, in
\* unnamed/part_005), called by concurrent threads. An object is named by the
\* number of its construction, 1 for the first of its class; 0 is nullptr.

NumThreads == 3
MaxCalls == 2
Threads == 1..NumThreads

PynativeInit ==
  /\ instance_lock_ = 0
  /\ executor_ = 0
  /\ forward_executor_ = 0
  /\ grad_executor_ = 0
  /\ grad_of_forward = 0
  /\ constructed = [executor |-> 0, forward |-> 0, grad |-> 0]
  /\ gi_pc = [t \in Threads |-> "idle"]
  /\ gi_returned = [t \in Threads |-> <<>>]
PynativeIdle == PynativeInit

\* A thread calls GetInstance.
GetInstance_Call(t) ==
  /\ gi_pc[t] = "idle"
  /\ Len(gi_returned[t]) < MaxCalls
  /\ gi_pc' = [gi_pc EXCEPT ![t] = "lock"]
  /\ UNCHANGED <<instance_lock_, executor_, forward_executor_, grad_executor_,
                 grad_of_forward, constructed, gi_returned>>

GetInstance_Lock_NotExclusive(t) ==
  /\ gi_pc[t] = "lock"
  /\ instance_lock_' = t
  /\ gi_pc' = [gi_pc EXCEPT ![t] = "check"]
  /\ UNCHANGED <<executor_, forward_executor_, grad_executor_, grad_of_forward,
                 constructed, gi_returned>>
\* std::lock_guard<std::mutex> i_lock(instance_lock_)
GetInstance_Lock(t) ==
  /\ gi_pc[t] = "lock"
  /\ instance_lock_ = 0
  /\ instance_lock_' = t
  /\ gi_pc' = [gi_pc EXCEPT ![t] = "check"]
  /\ UNCHANGED <<executor_, forward_executor_, grad_executor_, grad_of_forward,
                 constructed, gi_returned>>

\* if (executor_ == nullptr)
GetInstance_Check(t) ==
  /\ gi_pc[t] = "check"
  /\ gi_pc' = [gi_pc EXCEPT ![t] = IF executor_ = 0 THEN "new_executor" ELSE "return"]
  /\ UNCHANGED <<instance_lock_, executor_, forward_executor_, grad_executor_,
                 grad_of_forward, constructed, gi_returned>>

\* executor_ = std::shared_ptr<PynativeExecutor>(new (std::nothrow) PynativeExecutor())
GetInstance_NewExecutor(t) ==
  /\ gi_pc[t] = "new_executor"
  /\ constructed' = [constructed EXCEPT !.executor = @ + 1]
  /\ executor_' = constructed.executor + 1
  /\ gi_pc' = [gi_pc EXCEPT ![t] = "new_forward"]
  /\ UNCHANGED <<instance_lock_, forward_executor_, grad_executor_, grad_of_forward,
                 gi_returned>>

\* forward_executor_ = std::make_shared<ForwardExecutor>()
GetInstance_NewForward(t) ==
  /\ gi_pc[t] = "new_forward"
  /\ constructed' = [constructed EXCEPT !.forward = @ + 1]
  /\ forward_executor_' = constructed.forward + 1
  /\ grad_of_forward' = 0
  /\ gi_pc' = [gi_pc EXCEPT ![t] = "new_grad"]
  /\ UNCHANGED <<instance_lock_, executor_, grad_executor_, gi_returned>>

\* grad_executor_ = std::make_shared<GradExecutor>(forward_executor_)
GetInstance_NewGrad(t) ==
  /\ gi_pc[t] = "new_grad"
  /\ constructed' = [constructed EXCEPT !.grad = @ + 1]
  /\ grad_executor_' = constructed.grad + 1
  /\ gi_pc' = [gi_pc EXCEPT ![t] = "set_grad"]
  /\ UNCHANGED <<instance_lock_, executor_, forward_executor_, grad_of_forward, gi_returned>>

\* forward_executor_->set_grad_executor(grad_executor_)
GetInstance_SetGrad(t) ==
  /\ gi_pc[t] = "set_grad"
  /\ grad_of_forward' = grad_executor_
  /\ gi_pc' = [gi_pc EXCEPT ![t] = "return"]
  /\ UNCHANGED <<instance_lock_, executor_, forward_executor_, grad_executor_, constructed,
                 gi_returned>>

\* return executor_; the lock_guard releases instance_lock_ once the returned
\* pointer has been copied.
GetInstance_Return(t) ==
  /\ gi_pc[t] = "return"
  /\ gi_returned' = [gi_returned EXCEPT ![t] = Append(@, executor_)]
  /\ instance_lock_' = IF instance_lock_ = t THEN 0 ELSE instance_lock_
  /\ gi_pc' = [gi_pc EXCEPT ![t] = "idle"]
  /\ UNCHANGED <<executor_, forward_executor_, grad_executor_, grad_of_forward, constructed>>

-----------------------------------------------------------------------------
\* RmsPropKernel and RmsPropCenterKernel (rmsprop_impl.cu): the grid-stride loop
\* of one launch. A thread is the pair of its blockIdx.x and threadIdx.x; one
\* action is one iteration of one thread's loop. The update of element i is kept
\* as the number of times the loop body ran on i and the batch whose
\* learning_rate (and, centred, decay, momentum and epsilon) it read.

\* blockIdx.x, blockDim.x, gridDim.x and threadIdx.x are unsigned int: their
\* products and sums wrap at 2^32. The model keeps the wrap at a smaller width.
UIntBits == 4
MaxBatchSize == 2
MaxInputElements == 3
MaxGridDim == 4
MaxBlockDim == 4
\* The loop of a thread whose stride wrapped to 0 never ends: its iterations on
\* one element are followed up to this count.
MaxUpdates == 2

UIntWrap(n) == n % (2 ^ UIntBits)

RmsKernels == {"RmsProp", "RmsPropCenter"}
RmsThreads == (0..(MaxGridDim - 1)) \X (0..(MaxBlockDim - 1))
RmsElements == 0..(MaxBatchSize * MaxInputElements - 1)

all_elements == rms_batch_size * rms_input_elements

\* i = blockIdx.x * blockDim.x + threadIdx.x
FirstIndex(block_idx, thread_idx, block_dim) ==
  UIntWrap(UIntWrap(block_idx * block_dim) + thread_idx)

NextIndex_BlockStride(i) == i + rms_blockDim

\* i += blockDim.x * gridDim.x
NextIndex(i) == i + UIntWrap(rms_blockDim * rms_gridDim)

\* batch = i / input_elements
BatchOf(i) == i \div rms_input_elements

RmsIdle ==
  /\ rms_kernel = "none"
  /\ rms_batch_size = 0
  /\ rms_input_elements = 0
  /\ rms_gridDim = 0
  /\ rms_blockDim = 0
  /\ rms_i = [th \in RmsThreads |-> 0]
  /\ rms_updates = [i \in RmsElements |-> 0]
  /\ rms_batch_read = [i \in RmsElements |-> -1]

\* kernel<<<grid, block>>>(batch_size, input_elements, ...): every thread of the
\* grid enters its loop at its first index.
LaunchGrid(kernel, batch_size, input_elements, grid, block) ==
  /\ rms_kernel = "none"
  /\ rms_kernel' = kernel
  /\ rms_batch_size' = batch_size
  /\ rms_input_elements' = input_elements
  /\ rms_gridDim' = grid
  /\ rms_blockDim' = block
  /\ rms_i' = [th \in RmsThreads |->
                 IF th[1] < grid /\ th[2] < block
                 THEN FirstIndex(th[1], th[2], block)
                 ELSE 0]
  /\ UNCHANGED <<rms_updates, rms_batch_read>>

RmsProp(batch_size, input_elements, grid, block) ==
  LaunchGrid("RmsProp", batch_size, input_elements, grid, block)

RmsPropCenter(batch_size, input_elements, grid, block) ==
  LaunchGrid("RmsPropCenter", batch_size, input_elements, grid, block)

\* One iteration of the loop of thread th: the body on element i, then the stride.
LoopIteration(th) ==
  /\ th[1] < rms_gridDim /\ th[2] < rms_blockDim
  /\ rms_i[th] < all_elements
  /\ rms_updates[rms_i[th]] < MaxUpdates
  /\ rms_updates' = [rms_updates EXCEPT ![rms_i[th]] = @ + 1]
  /\ rms_batch_read' = [rms_batch_read EXCEPT ![rms_i[th]] = BatchOf(rms_i[th])]
  /\ rms_i' = [rms_i EXCEPT ![th] = NextIndex(@)]
  /\ UNCHANGED <<rms_kernel, rms_batch_size, rms_input_elements, rms_gridDim, rms_blockDim>>

RmsPropKernel(th) == rms_kernel = "RmsProp" /\ LoopIteration(th)

RmsPropCenterKernel(th) == rms_kernel = "RmsPropCenter" /\ LoopIteration(th)

\* Every thread of the grid has left its loop.
KernelFinished ==
  /\ rms_kernel \in RmsKernels
  /\ \A th \in RmsThreads :
       (th[1] < rms_gridDim /\ th[2] < rms_blockDim) => rms_i[th] >= all_elements

-----------------------------------------------------------------------------
\* The CSR-family inference functions of prim_others.cc that set the
\* csr_avg_rows attribute of the primitive. An inference returns the pair of its
\* result and the attribute it has set by then.

CsrOps == {"CSRElementWise", "CSRMV", "CSRMM", "CSRReduceSum", "CSRGather", "CSR2COO"}
CsrDims == {1, 2, 3}
\* The shape tuple of a CSR tensor is <<rows, columns>>.
CsrSparseShapes == CsrDims \X CsrDims
CsrDenseShapes == {<<d>> : d \in CsrDims} \cup (CsrDims \X CsrDims)
NnzValues == {0, 4, 6}
CsrIndptrShapes == {<<2>>, <<3>>, <<4>>}
CsrIndexDtypes == {"Int32", "Int64"}
AxisValues == {-1, 0, 1}
ScalarKinds == {"Int64Imm", "FP32Imm"}

NoAttr == [set |-> FALSE, value |-> 0]
SetAttr(v) == [set |-> TRUE, value |-> v]

\* CheckSparseIndicesDtypeInt32 passes
IsInt32(t) == t = "Int32"

\* CheckSparseShape(sparse_shp, dense_shp) passes: the dense shape, padded with
\* leading ones to the sparse rank, equals the sparse shape, except that a dense
\* dimension before kCSRMulBatchPos may be 1.
kCSRMulBatchPos == 2
CheckSparseShapeBroadcast(sparse_shp, dense_shp) ==
  LET dlen == Len(sparse_shp) - Len(dense_shp)
      padded == [i \in 1..dlen |-> 1] \o dense_shp
  IN  /\ dlen >= 0
      /\ Len(sparse_shp) >= 1
      /\ \A i \in 1..Len(sparse_shp) :
           IF i - 1 < kCSRMulBatchPos
           THEN padded[i] = sparse_shp[i] \/ padded[i] = 1
           ELSE padded[i] = sparse_shp[i]

InferImplCSRElementWise(a) ==
  IF ~IsInt32(a.indptr_dtype) \/ ~IsInt32(a.indices_dtype) THEN <<Raise("TypeError"), NoAttr>>
  ELSE IF ~CheckSparseShapeBroadcast(a.sparse_shape, a.dense_shape)
    THEN <<Raise("ValueError"), NoAttr>>
  ELSE <<Return(a.values_shp), SetAttr(a.nnz_vec[1] \div a.dense_shape[1])>>

InferImplCSRMV(a) ==
  IF ~IsInt32(a.indptr_dtype) \/ ~IsInt32(a.indices_dtype) THEN <<Raise("TypeError"), NoAttr>>
  ELSE IF Len(a.sparse_shape) # 2 \/ Len(a.dense_shape) # 2 THEN <<Raise("ValueError"), NoAttr>>
  ELSE IF a.dense_shape[1] # a.sparse_shape[2] \/ a.dense_shape[2] # 1
    THEN <<Raise("ValueError"), NoAttr>>
  ELSE <<Return(<<a.sparse_shape[1], a.dense_shape[2]>>),
         SetAttr(a.nnz_vec[1] \div a.dense_shape[1])>>

InferImplCSRMM(a) ==
  IF ~IsInt32(a.indptr_dtype) \/ ~IsInt32(a.indices_dtype) THEN <<Raise("TypeError"), NoAttr>>
  ELSE IF Len(a.sparse_shape) # 2 \/ Len(a.dense_shape) # 2 THEN <<Raise("ValueError"), NoAttr>>
  ELSE IF a.dense_shape[1] # a.sparse_shape[2] THEN <<Raise("ValueError"), NoAttr>>
  ELSE <<Return(<<a.sparse_shape[1], a.dense_shape[2]>>),
         SetAttr(a.nnz_vec[1] \div a.dense_shape[1])>>

InferImplCSRReduceSum(a) ==
  LET dim == Len(a.sparse_shape)
      axis_value == IF a.axis < 0 THEN a.axis + dim ELSE a.axis
  IN  IF ~IsInt32(a.indptr_dtype) \/ ~IsInt32(a.indices_dtype)
        THEN <<Raise("TypeError"), NoAttr>>
      ELSE IF a.axis_kind # "Int64Imm" THEN <<Raise("TypeError"), NoAttr>>
      ELSE IF a.axis # 1 /\ a.axis # 1 - dim THEN <<Raise("ValueError"), NoAttr>>
      ELSE <<Return([a.sparse_shape EXCEPT ![axis_value + 1] = 1]),
             SetAttr(a.nnz_vec[1] \div a.sparse_shape[1])>>

InferImplCSRGather(a) ==
  IF ~IsInt32(a.indptr_dtype) \/ ~IsInt32(a.indices_dtype) THEN <<Raise("TypeError"), NoAttr>>
  ELSE <<Return(a.nnz_vec \o SubSeq(a.dense_shape, 3, Len(a.dense_shape))),
         SetAttr(a.nnz_vec[1] \div a.sparse_shape[1])>>

InferImplCSR2COO(a) ==
  LET num_rows == a.indptr_shape[1] - 1
  IN  IF ~IsInt32(a.indptr_dtype) THEN <<Raise("TypeError"), NoAttr>>
      ELSE IF a.nnz_kind # "Int64Imm" THEN <<Raise("ValueError"), NoAttr>>
      ELSE <<Return(<<a.nnz>>), SetAttr(a.nnz \div num_rows)>>

\* The arguments of one inference; nnz_vec is the shape of indices, nnz and
\* nnz_kind the scalar argument of CSR2COO, axis and axis_kind that of
\* CSRReduceSum.
CsrArgs ==
  [indptr_dtype : CsrIndexDtypes, indices_dtype : CsrIndexDtypes,
   indptr_shape : CsrIndptrShapes, nnz_vec : {<<n>> : n \in NnzValues},
   values_shp : {<<n>> : n \in NnzValues},
   sparse_shape : CsrSparseShapes, dense_shape : CsrDenseShapes,
   axis : AxisValues, axis_kind : ScalarKinds, nnz : NnzValues, nnz_kind : ScalarKinds]

\* The arguments an inference does not read are held at one value.
DefaultArgs ==
  [indptr_dtype |-> "Int32", indices_dtype |-> "Int32", indptr_shape |-> <<3>>,
   nnz_vec |-> <<4>>, values_shp |-> <<4>>, sparse_shape |-> <<2, 3>>,
   dense_shape |-> <<2, 3>>, axis |-> 1, axis_kind |-> "Int64Imm", nnz |-> 4,
   nnz_kind |-> "Int64Imm"]

ArgsRead(op) ==
  CASE op \in {"CSRElementWise", "CSRMV", "CSRMM", "CSRGather"} ->
         {"indptr_dtype", "indices_dtype", "nnz_vec", "values_shp", "sparse_shape", "dense_shape"}
    [] op = "CSRReduceSum" ->
         {"indptr_dtype", "indices_dtype", "nnz_vec", "values_shp", "sparse_shape", "axis",
          "axis_kind"}
    [] op = "CSR2COO" -> {"indptr_dtype", "indptr_shape", "nnz", "nnz_kind"}

CsrIdle ==
  /\ csr_op = "none"
  /\ csr_args = DefaultArgs
  /\ csr_result = Raise("none")
  /\ csr_avg_rows = NoAttr

CsrInit ==
  /\ csr_op \in CsrOps
  /\ csr_args \in {a \in CsrArgs :
                     /\ a.values_shp = a.nnz_vec
                     /\ \A f \in DOMAIN a : f \notin ArgsRead(csr_op) => a[f] = DefaultArgs[f]}
  /\ csr_result = Raise("none")
  /\ csr_avg_rows = NoAttr

\* One inference, with the primitive's attribute as it leaves it.
CsrInfer(op, infer) ==
  /\ csr_op = op
  /\ csr_result.status = "none"
  /\ csr_result' = infer[1]
  /\ csr_avg_rows' = infer[2]
  /\ UNCHANGED <<csr_op, csr_args>>

CSRElementWise == CsrInfer("CSRElementWise", InferImplCSRElementWise(csr_args))
CSRMV == CsrInfer("CSRMV", InferImplCSRMV(csr_args))
CSRMM == CsrInfer("CSRMM", InferImplCSRMM(csr_args))
CSRReduceSum == CsrInfer("CSRReduceSum", InferImplCSRReduceSum(csr_args))
CSRGather == CsrInfer("CSRGather", InferImplCSRGather(csr_args))
CSR2COO == CsrInfer("CSR2COO", InferImplCSR2COO(csr_args))

-----------------------------------------------------------------------------
\* ApplyRMSPropInferShape (apply_rms_prop.cc).

\* The shapes of var, mean_square, moment and grad; -1 is the dimension unknown
\* at compile time.
ApplyShapes == {<<2>>, <<3>>, <<-1>>, <<2, 3>>, <<3, 3>>, <<2, -1>>}
ApplyArgs == [var : ApplyShapes, ms : ApplyShapes, mom : ApplyShapes, grad : ApplyShapes]

\* Shape::IsDynamic: some dimension is unknown.
IsDynamic(shape) == \E i \in 1..Len(shape) : shape[i] < 0

ApplyRMSPropInferShape_SkippedWhenAnyDynamic(a) ==
  IF IsDynamic(a.var) \/ IsDynamic(a.ms) \/ IsDynamic(a.mom) \/ IsDynamic(a.grad)
    THEN Return(a.var)
  ELSE IF a.var # a.ms \/ a.var # a.mom \/ a.var # a.grad THEN Raise("ValueError")
  ELSE Return(a.var)

ApplyRMSPropInferShape(a) ==
  IF ~IsDynamic(a.var) /\ ~IsDynamic(a.ms) /\ a.var # a.ms THEN Raise("ValueError")
  ELSE IF ~IsDynamic(a.var) /\ ~IsDynamic(a.mom) /\ a.var # a.mom THEN Raise("ValueError")
  ELSE IF ~IsDynamic(a.var) /\ ~IsDynamic(a.grad) /\ a.var # a.grad THEN Raise("ValueError")
  ELSE Return(a.var)

ApplyIdle ==
  /\ apply_args = [var |-> <<2>>, ms |-> <<2>>, mom |-> <<2>>, grad |-> <<2>>]
  /\ apply_result = Raise("idle")

ApplyInit ==
  /\ apply_args \in ApplyArgs
  /\ apply_result = Raise("none")

\* ApplyRMSPropInfer, its shape part.
ApplyRMSPropInfer ==
  /\ apply_result.status = "none"
  /\ apply_result' = ApplyRMSPropInferShape(apply_args)
  /\ UNCHANGED apply_args

-----------------------------------------------------------------------------
\* The recv actor with the memory allocating callback set (use_void): the server
\* calls AllocateMessage for the body of each message it reads from a connection
\* and then HandleMessage with the message, one message of a connection after the
\* other. A buffer is named by the message it was handed out for.

NoBuffer == <<0, 0>>
BufferStates == {"none", "refused", "outstanding", "freed"}

RecvMemInit ==
  /\ apc = [s \in Senders |-> "idle"]
  /\ alloc_done = [s \in Senders |-> 0]
  /\ recv_data_ = [created |-> FALSE, ptr |-> NoBuffer]
  /\ buffers = [m \in Messages |-> [state |-> "none", freed_in |-> 0]]

\* The server has read the head of the next message of peer s and calls
\* AllocateMessage(size): the call takes context_mtx_ and reaches the wait.
AllocateMessage_Enter(s) ==
  /\ server_started
  /\ s \in Range(rpc_input_node_name_)
  /\ hpc[s] = "idle" /\ apc[s] = "idle"
  /\ alloc_done[s] = taken[s]
  /\ taken[s] < sent[s]
  /\ apc' = [apc EXCEPT ![s] = "wait"]
  /\ UNCHANGED <<alloc_done, recv_data_, buffers>>

\* context_cv_.wait(lock, [this] { return is_context_valid_; }); lock.unlock();
AllocateMessage_Wait(s) ==
  /\ apc[s] = "wait"
  /\ is_context_valid_
  /\ apc' = [apc EXCEPT ![s] = "passed"]
  /\ UNCHANGED <<alloc_done, recv_data_, buffers>>

\* DeviceResManager::AllocateMemory(address): when it succeeds the address points
\* at a newly allocated buffer.
AllocateMemory(address, buffer, ok) ==
  IF ok THEN [address EXCEPT !.ptr = buffer] ELSE address

\* The rest of AllocateMessage: recv_data_ is created once, memory is allocated
\* for it, and its pointer (nullptr when the allocation failed) is returned.
AllocateMessage_Allocate(s, ok) ==
  /\ apc[s] = "passed"
  /\ LET m == <<s, taken[s] + 1>>
     IN /\ recv_data_' = AllocateMemory([recv_data_ EXCEPT !.created = TRUE], m, ok)
        /\ buffers' = [buffers EXCEPT ![m].state = IF ok THEN "outstanding" ELSE "refused"]
  /\ apc' = [apc EXCEPT ![s] = "idle"]
  /\ alloc_done' = [alloc_done EXCEPT ![s] = @ + 1]

\* DeviceResManager::FreeMemory(address): the buffer the address points at is
\* released.
FreeMemory(seq) ==
  IF recv_data_.ptr = NoBuffer
    THEN UNCHANGED <<recv_data_, buffers>>
    ELSE /\ recv_data_' = [recv_data_ EXCEPT !.ptr = NoBuffer]
         /\ buffers' = [buffers EXCEPT ![recv_data_.ptr] = [state |-> "freed", freed_in |-> seq]]

\* RecvActor::EraseInput(context), its release of the data allocated by
\* AllocateMessage.
EraseInput_Release(seq) ==
  IF recv_data_.created THEN FreeMemory(seq) ELSE UNCHANGED <<recv_data_, buffers>>

\* HandleMessage is called with the message whose body AllocateMessage returned.
HandleAllocatedMessage_Enter(s, msg) ==
  /\ apc[s] = "idle"
  /\ msg # NULL_MSG => alloc_done[s] = msg
  /\ HandleMessage_Enter(s, msg)
  /\ UNCHANGED <<apc, alloc_done, recv_data_, buffers>>

\* RunOpInterProcessData; when the actor runs, its step ends in EraseInput.
RunOpInterProcessData_Release ==
  /\ RunOpInterProcessData
  /\ IF run_count' # run_count
       THEN EraseInput_Release(run_ctx')
       ELSE UNCHANGED <<recv_data_, buffers>>
  /\ UNCHANGED <<apc, alloc_done>>

RecvMemStep ==
  \/ /\ \/ \E src \in Senders : SetRouteInfo(src)
        \/ StartServer
        \/ SchedulerStep
        \/ \E s \in Senders : SenderEmit(s)
        \/ \E s \in Senders : HandleMessage_Wait(s)
        \/ \E s \in Senders : HandleMessage_Dispatch(s)
     /\ UNCHANGED <<apc, alloc_done, recv_data_, buffers>>
  \/ /\ \E s \in Senders :
          \/ AllocateMessage_Enter(s)
          \/ AllocateMessage_Wait(s)
          \/ \E ok \in BOOLEAN : AllocateMessage_Allocate(s, ok)
     /\ UNCHANGED recv_vars
  \/ \E s \in Senders : \E msg \in {NULL_MSG} \cup Steps : HandleAllocatedMessage_Enter(s, msg)
  \/ RunOpInterProcessData_Release

-----------------------------------------------------------------------------
\* RecvActor::PreprocessRemoteInput and RecvActor::ParseDynamicShapeData
\* (recv_actor.cc). A message body is its size in bytes together with what the
\* bytes decode to at the places the parser walks: for the i-th input, whether
\* the 22 bytes at the cursor are the magic header, the value of the length field
\* after it, and the payload size that the shape and type of the protobuf message
\* give. A read that ends beyond the body has no defined value: it may yield any
\* value of the field.
MaxInputs == 2
MaxBodySize == 72
MaxPbMsgSize == 2
MaxRealDataSize == 4

kRpcDynamicShapeDataLen == 22
SizeOfSizeT == 8

PbMsgSizes == {0, MaxPbMsgSize}
RealDataSizes == {0, MaxRealDataSize}
InputHeaders == [magic : BOOLEAN, pb_msg_size : PbMsgSizes, real_data_size : RealDataSizes]
Bodies == [size : 0..MaxBodySize, inputs : [1..MaxInputs -> InputHeaders]]

PdsIdle ==
  /\ pds_body = [size |-> 0, inputs |-> [i \in 1..MaxInputs |->
                   [magic |-> FALSE, pb_msg_size |-> 0, real_data_size |-> 0]]]
  /\ pds_count = 1
  /\ pds_pc = "idle"
  /\ pds_i = 1
  /\ data_to_be_parsed = 0
  /\ pds_offset = 0
  /\ pds_read_end = 0

\* A message arrives for a recv kernel with count inputs.
PdsInit ==
  /\ pds_body \in Bodies
  /\ pds_count \in 1..MaxInputs
  /\ pds_pc = "preprocess"
  /\ pds_i = 1
  /\ data_to_be_parsed = 0
  /\ pds_offset = 0
  /\ pds_read_end = 0

\* The values a read of n bytes at byte offset from can yield, stored being what
\* the body holds there.
ReadField(from, n, stored, all) ==
  IF from + n <= pds_body.size THEN {stored} ELSE all

\* The end of the bytes read so far, after a read of n bytes at offset from.
ReadUpTo(end, from, n) ==
  IF from + n > end THEN from + n ELSE end

\* PreprocessRemoteInput up to the call of ParseDynamicShapeData: a body no longer
\* than the magic header, or one that does not begin with it, is not dynamic
\* shape data.
PreprocessRemoteInput ==
  /\ pds_pc = "preprocess"
  /\ IF pds_body.size <= kRpcDynamicShapeDataLen
       THEN pds_pc' = "not_dynamic" /\ pds_read_end' = pds_read_end
       ELSE /\ pds_read_end' = ReadUpTo(pds_read_end, 0, kRpcDynamicShapeDataLen)
            /\ pds_pc' = IF pds_body.inputs[1].magic THEN "parse" ELSE "not_dynamic"
  /\ UNCHANGED <<pds_body, pds_count, pds_i, data_to_be_parsed, pds_offset>>

\* One iteration of the loop of ParseDynamicShapeData, for input pds_i.
ParseDynamicShapeData_Input ==
  /\ pds_pc = "parse"
  /\ pds_i <= pds_count
  /\ IF data_to_be_parsed >= pds_body.size
       THEN /\ pds_pc' = "raised"
            /\ UNCHANGED <<pds_i, data_to_be_parsed, pds_offset, pds_read_end>>
       ELSE LET header == pds_body.inputs[pds_i]
                size_at == data_to_be_parsed + kRpcDynamicShapeDataLen
                pb_at == size_at + SizeOfSizeT
            IN \E magic \in ReadField(data_to_be_parsed, kRpcDynamicShapeDataLen,
                                      header.magic, BOOLEAN) :
                 IF ~magic
                   THEN /\ pds_pc' = "raised"
                        /\ pds_read_end' = ReadUpTo(pds_read_end, data_to_be_parsed,
                                                    kRpcDynamicShapeDataLen)
                        /\ UNCHANGED <<pds_i, data_to_be_parsed, pds_offset>>
                   ELSE \E pb_msg_size \in ReadField(size_at, SizeOfSizeT,
                                                     header.pb_msg_size, PbMsgSizes) :
                        \E real_data_size \in ReadField(pb_at, pb_msg_size,
                                                        header.real_data_size, RealDataSizes) :
                          /\ pds_read_end' = ReadUpTo(pds_read_end, pb_at, pb_msg_size)
                          /\ data_to_be_parsed' = pb_at + pb_msg_size + real_data_size
                          /\ pds_offset' = pds_offset + kRpcDynamicShapeDataLen + SizeOfSizeT
                                             + pb_msg_size + real_data_size
                          /\ pds_i' = pds_i + 1
                          /\ pds_pc' = "parse"
  /\ UNCHANGED <<pds_body, pds_count>>

\* After the last input: the offsets are handed to the kernel and the parsed
\* length is returned.
ParseDynamicShapeData_Return ==
  /\ pds_pc = "parse"
  /\ pds_i > pds_count
  /\ pds_pc' = "returned"
  /\ UNCHANGED <<pds_body, pds_count, pds_i, data_to_be_parsed, pds_offset, pds_read_end>>

-----------------------------------------------------------------------------
\* MaxPoolGradWithArgmax (ops/grad/max_pool_grad_with_argmax.cc): the attribute
\* accessors. An attribute value is a typed immediate, or NoValue when the
\* primitive has no such attribute.
PadModes == {"PAD", "SAME", "VALID"}
ModeStrings == {"same", "Same", "SAME", "valid", "VALID", "pad"}
SizeVectors == {<<1, 1>>, <<2, 3>>, <<0, 2>>}

NoValue == [type |-> "none"]
Int64Value(n) == [type |-> "int64", val |-> n]
StringValue(str) == [type |-> "string", val |-> str]
VectorValue(vec) == [type |-> "vector", val |-> vec]

\* int64_t swi = pad_mode: the enumerators of PadMode in their order.
PadModeToInt(pad_mode) ==
  IF pad_mode = "PAD" THEN 0 ELSE IF pad_mode = "SAME" THEN 1 ELSE 2

\* GetValue<std::string>: the string of a string value; a value of another type
\* holds no string and yields the empty one.
GetValueString(value) ==
  IF value.type = "string" THEN value.val ELSE ""

\* std::transform(..., ::toupper) on the strings of the model.
ToUpper(str) ==
  IF str \in {"same", "Same", "SAME"} THEN "SAME"
  ELSE IF str \in {"valid", "VALID"} THEN "VALID"
  ELSE IF str = "pad" THEN "PAD"
  ELSE str

\* CheckAndConvertUtils::CheckPositiveVector: every entry is positive.
CheckPositiveVector(vec) == \A k \in DOMAIN vec : vec[k] > 0

MpIdle ==
  /\ mp_attrs = [pad_mode |-> NoValue, kernel_size |-> NoValue, strides |-> NoValue]
  /\ mp_origin = "none"
  /\ mp_mode = "PAD"
  /\ mp_got = "none"

\* A primitive as the front end builds it: pad_mode absent or a mode string.
MpInit ==
  /\ \E value \in {NoValue} \cup {StringValue(str) : str \in ModeStrings} :
       /\ mp_attrs = [pad_mode |-> value, kernel_size |-> NoValue, strides |-> NoValue]
       /\ mp_origin = IF value = NoValue THEN "none" ELSE "AddAttr"
  /\ mp_mode = "PAD"
  /\ mp_got = "none"

\* MaxPoolGradWithArgmax::set_pad_mode: the attributes after the call.
set_pad_mode(attrs, pad_mode) ==
  [attrs EXCEPT !.pad_mode = Int64Value(PadModeToInt(pad_mode))]

\* MaxPoolGradWithArgmax::get_pad_mode: the mode returned, or "exception".
get_pad_mode(attrs) ==
  IF attrs.pad_mode = NoValue THEN "exception"
  ELSE IF ToUpper(GetValueString(attrs.pad_mode)) \notin {"SAME", "VALID"} THEN "exception"
  ELSE IF ToUpper(GetValueString(attrs.pad_mode)) = "SAME" THEN "SAME" ELSE "VALID"

\* A call of set_pad_mode(pad_mode).
SetPadMode(pad_mode) ==
  /\ mp_attrs' = set_pad_mode(mp_attrs, pad_mode)
  /\ mp_origin' = "set_pad_mode"
  /\ mp_mode' = pad_mode
  /\ mp_got' = "none"

\* A call of Init(kernel_size, stride, pad_mode, format): set_pad_mode,
\* set_kernel_size, set_strides in that order; a vector that is not positive
\* raises and leaves what was set before it.
MaxPoolGradWithArgmax_Init(kernel_size, stride, pad_mode) ==
  /\ mp_attrs' =
       [set_pad_mode(mp_attrs, pad_mode) EXCEPT
          !.kernel_size = IF CheckPositiveVector(kernel_size)
                            THEN VectorValue(kernel_size) ELSE @,
          !.strides = IF CheckPositiveVector(kernel_size) /\ CheckPositiveVector(stride)
                        THEN VectorValue(stride) ELSE @]
  /\ mp_origin' = IF CheckPositiveVector(kernel_size) /\ CheckPositiveVector(stride)
                    THEN "Init" ELSE "Init raised"
  /\ mp_mode' = pad_mode
  /\ mp_got' = "none"

\* A call of get_pad_mode().
GetPadMode ==
  /\ mp_got = "none"
  /\ mp_got' = get_pad_mode(mp_attrs)
  /\ UNCHANGED <<mp_attrs, mp_origin, mp_mode>>

-----------------------------------------------------------------------------
\* InferImplAllGather and InferImplReduceScatter (abstract/ops/prim_others.cc).
\* A dimension is an int64_t, modelled at LongBits bits; -1 is the dimension
\* unknown at compile time. A signed product out of range has no defined value.
LongBits == 6
MaxRankSize == 4

LONG_MAX == 2 ^ (LongBits - 1) - 1
LONG_MIN == -(2 ^ (LongBits - 1))
Longs == LONG_MIN..LONG_MAX

LeadingDims == {-1, 0, 1, 3, 2 ^ (LongBits - 2)}
GatherShapes == {<<>>} \cup {<<d>> : d \in LeadingDims} \cup {<<d, 3>> : d \in LeadingDims}
                  \cup {<<d, -1>> : d \in LeadingDims}
RankSizes == {0} \cup (1..MaxRankSize)
GatherArgs == [shape : GatherShapes, has_rank_size : BOOLEAN, rank_size : RankSizes]

\* tmp_shape[0] = value.
WithLeading(shape, value) == [shape EXCEPT ![1] = value]

\* x * y on int64_t: the product, or any value when it overflows.
LongMul(x, y) ==
  IF x * y \in Longs THEN {x * y} ELSE Longs

\* The results InferImplAllGather can give for primitive and argument a.
InferImplAllGather(a) ==
  IF ~a.has_rank_size THEN {Raise("no rank_size")}
  ELSE IF a.rank_size = 0 THEN {Raise("rank_size is 0")}
  ELSE IF a.shape = <<>> THEN {Raise("shape size is 0")}
  ELSE IF a.shape[1] > 0
    THEN {Return(WithLeading(a.shape, p)) : p \in LongMul(a.shape[1], a.rank_size)}
  ELSE {Return(a.shape)}

\* LongMulWithOverflowCheck: the product, raising when it is out of range.
LongMulWithOverflowCheck(shape, x, y) ==
  IF x * y \in Longs THEN Return(WithLeading(shape, x * y)) ELSE Raise("overflow")

\* The results InferImplReduceScatter can give.
InferImplReduceScatter(a) ==
  IF ~a.has_rank_size THEN {Raise("no rank_size")}
  ELSE IF a.shape = <<>> THEN {Raise("shape size is 0")}
  ELSE {LongMulWithOverflowCheck(a.shape, a.shape[1], a.rank_size)}

GatherIdle ==
  /\ gather_op = "none"
  /\ gather_args = [shape |-> <<>>, has_rank_size |-> FALSE, rank_size |-> 0]
  /\ gather_result = Raise("idle")

GatherInit ==
  /\ gather_op = "none"
  /\ gather_args \in GatherArgs
  /\ gather_result = Raise("none")

\* The inference of an AllGather node.
AllGather ==
  /\ gather_op = "none"
  /\ gather_op' = "AllGather"
  /\ gather_result' \in InferImplAllGather(gather_args)
  /\ UNCHANGED gather_args

\* The inference of a ReduceScatter node.
ReduceScatter ==
  /\ gather_op = "none"
  /\ gather_op' = "ReduceScatter"
  /\ gather_result' \in InferImplReduceScatter(gather_args)
  /\ UNCHANGED gather_args

-----------------------------------------------------------------------------
\* Specifications.

base_vars == <<recv_vars, session_vars, config_vars, somas_vars, lsa_vars>>
ext_vars == <<arith_vars, floormod_vars, median_vars, sparse_vars, dropout_vars, pynative_vars>>
more_vars == <<rms_vars, csr_vars, apply_vars, recvmem_vars, pds_vars, mp_vars, gather_vars>>
vars == <<base_vars, ext_vars, more_vars>>

\* The remaining parts, idle.
ExtIdle ==
  ArithIdle /\ FloorModIdle /\ MedianIdle /\ SparseIdle /\ DropoutIdle /\ PynativeIdle
BaseIdle == RecvInit /\ SessionIdle /\ ConfigIdle /\ SomasIdle /\ LsaIdle
MoreIdle ==
  RmsIdle /\ CsrIdle /\ ApplyIdle /\ RecvMemInit /\ PdsIdle /\ MpIdle /\ GatherIdle

Init == RecvInit /\ SessionIdle /\ ConfigIdle /\ SomasIdle /\ LsaIdle /\ ExtIdle /\ MoreIdle
Next == RecvNext /\ UNCHANGED <<session_vars, config_vars, somas_vars, lsa_vars, ext_vars, more_vars>>
Spec == Init /\ [][Next]_vars

\* The threads the code runs keep running: every handler thread that can pass its
\* wait or dispatch does so, the actor thread drains its mailbox, and the scheduler
\* begins the next step once the previous one is complete. The peers are not
\* obliged to send.
RecvFairness ==
  /\ \A s \in Senders : WF_recv_vars(HandleMessage_Wait(s))
  /\ \A s \in Senders : WF_recv_vars(HandleMessage_Dispatch(s))
  /\ \A s \in Senders : \A k \in Steps : WF_recv_vars(HandleMessage_Enter(s, k))
  /\ WF_recv_vars(RunOpInterProcessData)
  /\ WF_recv_vars(SchedulerStep)
FairSpec == Init /\ [][Next]_vars /\ RecvFairness


SessionSpecInit == RecvInit /\ SessionInit /\ ConfigIdle /\ SomasIdle /\ LsaIdle /\ ExtIdle /\ MoreIdle
SessionNext == CreateSession /\ UNCHANGED <<recv_vars, config_vars, somas_vars, lsa_vars, ext_vars, more_vars>>
SessionSpec == SessionSpecInit /\ [][SessionNext]_vars

ConfigSpecInit == RecvInit /\ SessionIdle /\ ConfigInit /\ SomasIdle /\ LsaIdle /\ ExtIdle /\ MoreIdle
ConfigNext ==
  /\ \E section \in SectionNames : \E config_size \in ConfigSizes :
       SetConfigInfo(section, config_size)
  /\ UNCHANGED <<recv_vars, session_vars, somas_vars, lsa_vars, ext_vars, more_vars>>
ConfigSpec == ConfigSpecInit /\ [][ConfigNext]_vars

SomasSpecInit == RecvInit /\ SessionIdle /\ ConfigIdle /\ SomasInit /\ LsaIdle /\ ExtIdle /\ MoreIdle
SomasNext ==
  /\ \E real_size \in 0..MaxRealSize : SomasTensor(real_size)
  /\ UNCHANGED <<recv_vars, session_vars, config_vars, lsa_vars, ext_vars, more_vars>>
SomasSpec == SomasSpecInit /\ [][SomasNext]_vars

LsaSpecInit == RecvInit /\ SessionIdle /\ ConfigIdle /\ SomasIdle /\ LsaInit /\ ExtIdle /\ MoreIdle
LsaNext == LaunchKernel /\ UNCHANGED <<recv_vars, session_vars, config_vars, somas_vars, ext_vars, more_vars>>
LsaSpec == LsaSpecInit /\ [][LsaNext]_vars

ArithSpecInit ==
  BaseIdle /\ MoreIdle /\ ArithInit /\ FloorModIdle /\ MedianIdle /\ SparseIdle /\ DropoutIdle /\ PynativeIdle
ArithNext == RunFunc /\ UNCHANGED <<base_vars, more_vars, floormod_vars, median_vars, sparse_vars, dropout_vars, pynative_vars>>
ArithSpec == ArithSpecInit /\ [][ArithNext]_vars

FloorModSpecInit ==
  BaseIdle /\ MoreIdle /\ ArithIdle /\ FloorModInit /\ MedianIdle /\ SparseIdle /\ DropoutIdle /\ PynativeIdle
FloorModNext == FloorMod /\ UNCHANGED <<base_vars, more_vars, arith_vars, median_vars, sparse_vars, dropout_vars, pynative_vars>>
FloorModSpec == FloorModSpecInit /\ [][FloorModNext]_vars

MedianSpecInit ==
  BaseIdle /\ MoreIdle /\ ArithIdle /\ FloorModIdle /\ MedianInit /\ SparseIdle /\ DropoutIdle /\ PynativeIdle
MedianNext == MedianInfer /\ UNCHANGED <<base_vars, more_vars, arith_vars, floormod_vars, sparse_vars, dropout_vars, pynative_vars>>
MedianSpec == MedianSpecInit /\ [][MedianNext]_vars

SparseSpecInit ==
  BaseIdle /\ MoreIdle /\ ArithIdle /\ FloorModIdle /\ MedianIdle /\ SparseInit /\ DropoutIdle /\ PynativeIdle
SparseNext ==
  /\ MakeRowTensor \/ MakeCOOTensor \/ MakeCSRTensor
  /\ UNCHANGED <<base_vars, more_vars, arith_vars, floormod_vars, median_vars, dropout_vars, pynative_vars>>
SparseSpec == SparseSpecInit /\ [][SparseNext]_vars

DropoutSpecInit ==
  BaseIdle /\ MoreIdle /\ ArithIdle /\ FloorModIdle /\ MedianIdle /\ SparseIdle /\ DropoutConstructed
    /\ PynativeIdle
DropoutNext ==
  /\ \/ \E kind \in InputShapeKinds : \E shape \in ElementCounts :
          \E seed0 \in SeedAttrs : \E seed1 \in SeedAttrs :
            \E now \in TimeValues : \E attr \in OutputAttrs :
              DropoutFwdInit(kind, shape, seed0, seed1, now, attr)
     \/ Launch
     \/ ResetResource
  /\ UNCHANGED <<base_vars, more_vars, arith_vars, floormod_vars, median_vars, sparse_vars, pynative_vars>>
DropoutSpec == DropoutSpecInit /\ [][DropoutNext]_vars

PynativeSpecInit ==
  BaseIdle /\ MoreIdle /\ ArithIdle /\ FloorModIdle /\ MedianIdle /\ SparseIdle /\ DropoutIdle
    /\ PynativeInit
PynativeNext ==
  /\ \E t \in Threads :
       \/ GetInstance_Call(t)
       \/ GetInstance_Lock(t)
       \/ GetInstance_Check(t)
       \/ GetInstance_NewExecutor(t)
       \/ GetInstance_NewForward(t)
       \/ GetInstance_NewGrad(t)
       \/ GetInstance_SetGrad(t)
       \/ GetInstance_Return(t)
  /\ UNCHANGED <<base_vars, more_vars, arith_vars, floormod_vars, median_vars, sparse_vars, dropout_vars>>
PynativeSpec == PynativeSpecInit /\ [][PynativeNext]_vars

RmsPropSpecInit ==
  BaseIdle /\ ExtIdle /\ RmsIdle /\ CsrIdle /\ ApplyIdle /\ RecvMemInit /\ PdsIdle
    /\ MpIdle /\ GatherIdle
RmsPropNext ==
  /\ \/ \E batch_size \in 1..MaxBatchSize : \E input_elements \in 1..MaxInputElements :
          \E grid \in 1..MaxGridDim : \E block \in 1..MaxBlockDim :
            \/ RmsProp(batch_size, input_elements, grid, block)
            \/ RmsPropCenter(batch_size, input_elements, grid, block)
     \/ \E th \in RmsThreads : RmsPropKernel(th) \/ RmsPropCenterKernel(th)
  /\ UNCHANGED <<base_vars, ext_vars, csr_vars, apply_vars, recvmem_vars, pds_vars,
                 mp_vars, gather_vars>>
RmsPropSpec == RmsPropSpecInit /\ [][RmsPropNext]_vars

CsrSpecInit ==
  BaseIdle /\ ExtIdle /\ CsrInit /\ RmsIdle /\ ApplyIdle /\ RecvMemInit /\ PdsIdle
    /\ MpIdle /\ GatherIdle
CsrNext ==
  /\ \/ CSRElementWise \/ CSRMV \/ CSRMM
     \/ CSRReduceSum \/ CSRGather \/ CSR2COO
  /\ UNCHANGED <<base_vars, ext_vars, rms_vars, apply_vars, recvmem_vars, pds_vars,
                 mp_vars, gather_vars>>
CsrSpec == CsrSpecInit /\ [][CsrNext]_vars

ApplySpecInit ==
  BaseIdle /\ ExtIdle /\ ApplyInit /\ RmsIdle /\ CsrIdle /\ RecvMemInit /\ PdsIdle
    /\ MpIdle /\ GatherIdle
ApplyNext ==
  /\ ApplyRMSPropInfer
  /\ UNCHANGED <<base_vars, ext_vars, rms_vars, csr_vars, recvmem_vars, pds_vars, mp_vars,
                 gather_vars>>
ApplySpec == ApplySpecInit /\ [][ApplyNext]_vars

RecvMemSpecInit ==
  BaseIdle /\ ExtIdle /\ RecvMemInit /\ RmsIdle /\ CsrIdle /\ ApplyIdle /\ PdsIdle
    /\ MpIdle /\ GatherIdle
RecvMemNext ==
  /\ RecvMemStep
  /\ UNCHANGED <<session_vars, config_vars, somas_vars, lsa_vars, ext_vars, rms_vars,
                 csr_vars, apply_vars, pds_vars, mp_vars, gather_vars>>
RecvMemSpec == RecvMemSpecInit /\ [][RecvMemNext]_vars

PdsSpecInit ==
  BaseIdle /\ ExtIdle /\ PdsInit /\ RmsIdle /\ CsrIdle /\ ApplyIdle /\ RecvMemInit
    /\ MpIdle /\ GatherIdle
PdsNext ==
  /\ \/ PreprocessRemoteInput
     \/ ParseDynamicShapeData_Input
     \/ ParseDynamicShapeData_Return
  /\ UNCHANGED <<base_vars, ext_vars, rms_vars, csr_vars, apply_vars, recvmem_vars,
                 mp_vars, gather_vars>>
PdsSpec == PdsSpecInit /\ [][PdsNext]_vars

MpSpecInit ==
  BaseIdle /\ ExtIdle /\ MpInit /\ RmsIdle /\ CsrIdle /\ ApplyIdle /\ RecvMemInit
    /\ PdsIdle /\ GatherIdle
MpNext ==
  /\ \/ \E pad_mode \in PadModes : SetPadMode(pad_mode)
     \/ \E kernel_size \in SizeVectors : \E stride \in SizeVectors :
          \E pad_mode \in PadModes : MaxPoolGradWithArgmax_Init(kernel_size, stride, pad_mode)
     \/ GetPadMode
  /\ UNCHANGED <<base_vars, ext_vars, rms_vars, csr_vars, apply_vars, recvmem_vars,
                 pds_vars, gather_vars>>
MpSpec == MpSpecInit /\ [][MpNext]_vars

GatherSpecInit ==
  BaseIdle /\ ExtIdle /\ GatherInit /\ RmsIdle /\ CsrIdle /\ ApplyIdle /\ RecvMemInit
    /\ PdsIdle /\ MpIdle
GatherNext ==
  /\ \/ AllGather
     \/ ReduceScatter
  /\ UNCHANGED <<base_vars, ext_vars, rms_vars, csr_vars, apply_vars, recvmem_vars,
                 pds_vars, mp_vars>>
GatherSpec == GatherSpecInit /\ [][GatherNext]_vars

-----------------------------------------------------------------------------
\* Claims about the recv actor.

\* The message of HandleMessage call s is in the mailbox.
Dispatched(mb, s, k) == \E i \in 1..Len(mb) : mb[i].from = s /\ mb[i].msg = k

C2_NoMessageOfNextStepUnderContext ==
  \A m \in Messages : recorded_ctx[m] # 0 => m[2] # recorded_ctx[m] + 1

\* C3: a message that reaches HandleMessage before its step has begun is never
\* dropped, and once the scheduler has attached the context of its step the
\* message is eventually dispatched to RunOpInterProcessData.
C3_HeldThenDispatched ==
  /\ [](dropped = {})
  /\ \A s \in Senders : \A k \in Steps :
        []((hpc[s] = "wait" /\ hmsg[s] = k /\ sched_step < k)
             => []((sched_step >= k) => <>(taken[s] >= k)))

\* C4: the actor is run for a sequential number only when the number of distinct
\* senders recorded for it equals the declared inter-process input count.
C4_RunOnlyWithDeclaredDistinctSenders ==
  run_count > 0 => Cardinality(Range(run_inputs)) = input_inter_process_num_


-----------------------------------------------------------------------------
\* Claims about InferSession::SelectSessionArg.

\* Some delegate is available: the context carries one, or a listed device has a
\* registered graph-executor delegate.
HasDelegate(ctx, registry) ==
  /\ ~ctx.is_null
  /\ \/ ctx.delegate
     \/ \E i \in DOMAIN ctx.devices : ctx.devices[i] \in registry

\* C5: whenever SelectSessionArg returns, it returns the delegate session when a
\* delegate is available (although the single-op flag is on) and the single-op
\* session when there is none.
C5_SessionPriority ==
  session_config.type_ \notin {"none", "exception"} =>
    /\ HasDelegate(context, delegate_registry) => session_config.type_ = kDelegateSession
    /\ ~HasDelegate(context, delegate_registry) => session_config.type_ = kSingleOpSession

\* C5 witness: a delegate session chosen because of a listed device alone.
C5_Witness ==
  /\ session_config.type_ = kDelegateSession
  /\ ~context.delegate
  /\ Len(context.devices) = 2

-----------------------------------------------------------------------------
\* Claims about RunnerConfig::SetConfigInfo.

\* C6: the stored config map holds at most kMaxSectionNum sections.
C6_AtMostMaxSections ==
  Len(config_info) <= kMaxSectionNum

-----------------------------------------------------------------------------
\* Claims about SomasTensor.

CeilDiv(a, b) == (a + b - 1) \div b

\* C7: the aligned size is 0 for size 0 and ((size + 512 + 31) / 512) * 512 for
\* every size > 0: the one multiple of 512 in (size + 31, size + 543]; size 1 gives
\* 512 and size 513 gives 1024.
C7_AlignedSizeFormula ==
  somas_constructed =>
    /\ original_size_ = 0 => aligned_size_ = 0
    /\ original_size_ > 0 =>
         /\ aligned_size_ = ((original_size_ + 543) \div 512) * 512
         /\ aligned_size_ % 512 = 0
         /\ original_size_ + 31 < aligned_size_
         /\ aligned_size_ <= original_size_ + 543
    /\ original_size_ = 1 => aligned_size_ = 512
    /\ original_size_ = 513 => aligned_size_ = 1024

C7_Witness ==
  somas_constructed /\ original_size_ = 513 /\ aligned_size_ = 1024

\* C8 as stated: for every size > 0 the aligned size is ceil((size + 31) / 512) * 512.
C8_AlignedSizeIsCeil ==
  (somas_constructed /\ original_size_ > 0) =>
    aligned_size_ = CeilDiv(original_size_ + 31, 512) * 512

\* C8 amended: for every size > 0 the aligned size is (floor((size + 31) / 512) + 1)
\* * 512, which is ceil((size + 31) / 512) * 512 unless size + 31 is a multiple of
\* 512, and 512 more than that when it is.
C8_AlignedSizeIsFloorPlusOne ==
  (somas_constructed /\ original_size_ > 0) =>
    /\ aligned_size_ = ((original_size_ + 31) \div 512 + 1) * 512
    /\ aligned_size_ = CeilDiv(original_size_ + 31, 512) * 512
                         + (IF (original_size_ + 31) % 512 = 0 THEN 512 ELSE 0)

C8_Witness ==
  somas_constructed /\ original_size_ = 481 /\ aligned_size_ = 1024

-----------------------------------------------------------------------------
\* Claims about the linear-sum-assignment solver.

\* Every entry of the cost matrix is a finite number.
FiniteCosts ==
  \A k \in DOMAIN cost_matrix : cost_matrix[k] \notin {NaN, INFINITY, -INFINITY}

RawNr == cost_matrix_shape_[1]
RawNc == cost_matrix_shape_[2]
FullLimit == dimension_limit = INT64_MAX \/ dimension_limit = RawNc

\* All complete assignments of the raw matrix: min(nr, nc) row/column pairs with
\* pairwise distinct rows and pairwise distinct columns.
CompleteAssignments ==
  {A \in SUBSET ((0..(RawNr - 1)) \X (0..(RawNc - 1))) :
     /\ Cardinality(A) = Min2(RawNr, RawNc)
     /\ \A p \in A : \A q \in A : p # q => (p[1] # q[1] /\ p[2] # q[2])}

RECURSIVE SumCost(_)
SumCost(A) ==
  IF A = {} THEN 0
  ELSE LET p == CHOOSE q \in A : TRUE
       IN cost_matrix[p[1] * RawNc + p[2]] + SumCost(A \ {p})

\* The pairs LaunchKernel wrote.
Returned ==
  {<<lsa_result.row_ind[k], lsa_result.col_ind[k]>> : k \in DOMAIN lsa_result.row_ind}

ReturnsCompleteAssignment ==
  /\ lsa_result.status = "true"
  /\ DOMAIN lsa_result.row_ind = 0..(Min2(RawNr, RawNc) - 1)
  /\ DOMAIN lsa_result.col_ind = DOMAIN lsa_result.row_ind
  /\ Returned \in CompleteAssignments

\* C9: with maximize = false, finite costs and the dimension limit equal to the
\* full column count, Solve returns a complete assignment whose total cost is the minimum over
\* all complete assignments.
C9_MinimalTotalCost ==
  (lsa_result.status # "none" /\ ~maximize /\ FullLimit /\ FiniteCosts) =>
    /\ ReturnsCompleteAssignment
    /\ \A A \in CompleteAssignments : SumCost(Returned) <= SumCost(A)

\* C9 witness: a solved 2 x 3 matrix whose first row's cheapest column had to be
\* given to the second row.
C9_Witness ==
  /\ lsa_result.status = "true" /\ ~maximize /\ FullLimit /\ FiniteCosts
  /\ cost_matrix_shape_ = <<2, 3>>
  /\ lsa_result.col_ind[0] # 0
  /\ \A j \in 1..2 : cost_matrix[0] < cost_matrix[j]

\* C10: with maximize = true (finite costs, the full column count as the limit) the returned
\* assignment is complete and has the maximum total cost over all complete
\* assignments, whatever the shape of the matrix.
C10_MaximalTotalCost ==
  (lsa_result.status # "none" /\ maximize /\ FullLimit /\ FiniteCosts) =>
    /\ ReturnsCompleteAssignment
    /\ \A A \in CompleteAssignments : SumCost(Returned) >= SumCost(A)

\* Some entry of the input cost matrix is NaN or negative infinity.
HasInvalidEntry ==
  \E k \in DOMAIN cost_matrix : IsNaN(cost_matrix[k]) \/ cost_matrix[k] = -INFINITY

\* Some complete assignment of the input matrix uses finite entries only.
HasFiniteAssignment ==
  \E A \in CompleteAssignments :
    \A p \in A : cost_matrix[p[1] * RawNc + p[2]] \notin {NaN, INFINITY, -INFINITY}

\* C11: for both values of maximize (the limit being the full column count), Solve
\* returns false, without raising, whenever an entry of the input matrix is NaN or
\* negative infinity; and positive infinity among the entries does not make
\* Solve fail while some complete assignment avoids the infinite entries.
C11_PrecheckOnInputEntries ==
  (lsa_result.status # "none" /\ FullLimit) =>
    /\ HasInvalidEntry => lsa_result.status = "false"
    /\ (~HasInvalidEntry /\ HasFiniteAssignment) => lsa_result.status = "true"

\* The dimension limit Solve is called with.
Limit == IF dimension_limit = INT64_MAX THEN RawNc ELSE dimension_limit

\* C12: whenever Solve succeeds, row_ind and col_ind are written on the slots
\* 0 .. min(nr, raw_nc) - 1; the first min(nr, dimension_limit) slots hold pairs of
\* a row in 0 .. nr - 1 and a column in 0 .. dimension_limit - 1 with pairwise
\* distinct rows and pairwise distinct columns, and every later slot holds -1 in
\* both arrays.
C12_ValidMatchingAndPadding ==
  lsa_result.status = "true" =>
    /\ DOMAIN lsa_result.row_ind = 0..(Min2(RawNr, RawNc) - 1)
    /\ DOMAIN lsa_result.col_ind = 0..(Min2(RawNr, RawNc) - 1)
    /\ \A k \in 0..(Min2(RawNr, RawNc) - 1) :
         IF k < Min2(RawNr, Limit)
           THEN /\ lsa_result.row_ind[k] \in 0..(RawNr - 1)
                /\ lsa_result.col_ind[k] \in 0..(Limit - 1)
                /\ \A m \in 0..(Min2(RawNr, Limit) - 1) :
                     m # k => /\ lsa_result.row_ind[m] # lsa_result.row_ind[k]
                              /\ lsa_result.col_ind[m] # lsa_result.col_ind[k]
           ELSE lsa_result.row_ind[k] = -1 /\ lsa_result.col_ind[k] = -1

\* C12 witness: three rows, two columns and a limit of one column: one pair and
\* one padded slot.
C12_Witness ==
  /\ lsa_result.status = "true"
  /\ cost_matrix_shape_ = <<3, 2>> /\ dimension_limit = 1
  /\ lsa_result.row_ind[0] # -1 /\ lsa_result.row_ind[1] = -1 /\ lsa_result.col_ind[1] = -1

-----------------------------------------------------------------------------
\* Claims about the division kernels.

\* The operands of output element i under broadcasting.
DividendAt(i) == input1[InputPos(input_shape1_, BroadcastShape(input_shape1_, input_shape2_), i)]
DivisorAt(i) == input2[InputPos(input_shape2_, BroadcastShape(input_shape1_, input_shape2_), i)]
\* The result for a non-zero dividend of the sign given, over a zero divisor.
SignedLimit(positive) ==
  IF dtype = "float32" THEN (IF positive THEN INFINITY ELSE -INFINITY)
  ELSE IF positive THEN limits_max(dtype) ELSE limits_min(dtype)
ZeroDivisorElements ==
  IF arith_launched /\ dtype \in RealTypes
    THEN {i \in DOMAIN output : DivisorAt(i) = 0}
  ELSE {}

\* C13 as stated: after RealDiv, Div or FloorDiv on a real dtype, every output
\* element with a zero divisor is NaN for a zero dividend, +inf (the type's max
\* without infinity) for a positive one and -inf (the type's min) for a negative
\* one, on every path.
C13_ZeroDivisorNaNOrInfinity ==
  \A i \in ZeroDivisorElements :
    /\ DividendAt(i) = 0 => IsNaN(output[i])
    /\ FLess(0, DividendAt(i)) => output[i] = SignedLimit(TRUE)
    /\ FLess(DividendAt(i), 0) => output[i] = SignedLimit(FALSE)

\* C13 amended: as C13, but a zero dividend over a zero divisor gives NaN only
\* on a type that has a NaN (the floating types); on the integer types it
\* gives 0.
C13_ZeroDivisorByType ==
  \A i \in ZeroDivisorElements :
    /\ DividendAt(i) = 0 =>
         IF dtype = "float32" THEN IsNaN(output[i]) ELSE output[i] = 0
    /\ FLess(0, DividendAt(i)) => output[i] = SignedLimit(TRUE)
    /\ FLess(DividendAt(i), 0) => output[i] = SignedLimit(FALSE)

C13_Witness ==
  /\ arith_launched
  /\ kernel_name_ = "FloorDiv"
  /\ dtype = "int8"
  /\ input_shape1_ = <<2, 1>>
  /\ input1 = (0 :> 0 @@ 1 :> -2)
  /\ input2 = (0 :> 0 @@ 1 :> 0)
  /\ output = (0 :> 0 @@ 1 :> 0 @@ 2 :> INT8_MIN @@ 3 :> INT8_MIN)

\* C14: after DivComplex or RealDivComplex, every output element whose divisor
\* is complex zero is NaN, whatever the dividend.
C14_ComplexZeroDivisorIsNaN ==
  (arith_launched /\ dtype \in ComplexTypes) =>
    \A i \in DOMAIN output :
      DivisorAt(i) = ComplexZero => (IsNaN(output[i][1]) \/ IsNaN(output[i][2]))

-----------------------------------------------------------------------------
\* Claims about FloorMod.

\* C15: for y # 0 the result of FloorMod(x, y) is zero or has the sign of y,
\* with FloorMod(-7, 3) = 2 and FloorMod(7, -3) = -2.
C15_FloorModHasSignOfDivisor ==
  floormod_done =>
    /\ floormod_out.mag = <<>> \/ floormod_out.neg = (floormod_y < 0)
    /\ (floormod_x = <<-7, 0>> /\ floormod_y = 3) => floormod_out = SignedOfInt(2)
    /\ (floormod_x = <<7, 0>> /\ floormod_y = -3) => floormod_out = SignedOfInt(-2)

-----------------------------------------------------------------------------
\* Claims about Median shape inference.

\* The input shape with position n (from 0) removed, or replaced by 1.
WithoutAxis(shape, n, keep) ==
  SubSeq(shape, 1, n) \o (IF keep THEN <<1>> ELSE <<>>) \o SubSeq(shape, n + 2, Len(shape))
NormalisedAxis == IF median_attrs.axis < 0 THEN median_attrs.axis + Len(median_x_shape)
                  ELSE median_attrs.axis
MedianInferred == median_result.status # "none" /\ ~median_attrs.global_median
AxisInRank == -Len(median_x_shape) <= median_attrs.axis /\ median_attrs.axis < Len(median_x_shape)

\* C16 as stated: without global_median, an axis in [-r, r) gives the input
\* shape with the normalised axis removed (keep_dims false) or replaced by 1
\* (keep_dims true), and every axis outside [-r, r) raises an error.
C16_AxisRemovedOrKeptElseError ==
  MedianInferred =>
    IF AxisInRank
      THEN median_result = [status |-> "ok",
                            out |-> WithoutAxis(median_x_shape, NormalisedAxis,
                                                median_attrs.keep_dims)]
    ELSE median_result.status = "error"

\* C16 amended: as C16 for every input of rank r >= 1; for a rank-0 input the
\* axes -1 and 0 are accepted and give the empty shape, every other axis raises.
C16_AxisRemovedOrKeptRankZeroAccepted ==
  MedianInferred =>
    IF AxisInRank
      THEN median_result = [status |-> "ok",
                            out |-> WithoutAxis(median_x_shape, NormalisedAxis,
                                                median_attrs.keep_dims)]
    ELSE IF Len(median_x_shape) = 0 /\ median_attrs.axis \in {-1, 0}
      THEN median_result = [status |-> "ok", out |-> <<>>]
    ELSE median_result.status = "error"

C16_Witness ==
  /\ median_x_shape = <<2, 3, 4>>
  /\ median_attrs = [global_median |-> FALSE, axis |-> -2, keep_dims |-> TRUE]
  /\ median_result = [status |-> "ok", out |-> <<2, 1, 4>>]

-----------------------------------------------------------------------------
\* Claims about the sparse constructors.

SparseInferred == sparse_result.status # "none"
SparseFailed == sparse_result.status \notin {"none", "ok"}

\* C17: MakeCOOTensor inference fails whenever the rank of indices is not 2,
\* and MakeCSRTensor inference fails whenever the length of indptr differs
\* from shape[0] + 1.
C17_StructurallyInvalidRejected ==
  SparseInferred =>
    /\ (sparse_op = "MakeCOOTensor" /\ Len(sparse_args.indices.shape) # 2) => SparseFailed
    /\ (/\ sparse_op = "MakeCSRTensor"
        /\ Len(sparse_args.indptr.shape) = 1
        /\ Len(sparse_args.dense_shape) >= 1
        /\ sparse_args.indptr.shape[1] # sparse_args.dense_shape[1] + 1) => SparseFailed

C17_Witness ==
  /\ sparse_op = "MakeCSRTensor"
  /\ sparse_args = [indptr |-> [dtype |-> "Int32", shape |-> <<4>>],
                    indices |-> [dtype |-> "Int32", shape |-> <<2>>],
                    values_shp |-> <<2>>, dense_shape |-> <<2, 2>>, all_int |-> TRUE]
  /\ sparse_result = Raise("ValueError")

\* C18: each of the three constructors fails whenever an entry of the dense
\* shape tuple is zero or negative.
C18_NonPositiveShapeRejected ==
  (SparseInferred /\ \E i \in DOMAIN sparse_args.dense_shape : sparse_args.dense_shape[i] <= 0)
    => SparseFailed

-----------------------------------------------------------------------------
\* Claims about the dropout forward kernel.

RECURSIVE SumOfCounts(_)
SumOfCounts(calls) ==
  IF calls = <<>> THEN 0 ELSE Head(calls).num_count + SumOfCounts(Tail(calls))

\* C19: every fused launch advances seed_offset_ by its element count: each
\* fused call is passed the offset of the call before it plus that call's
\* element count, two successive fused calls with the same seed are passed
\* different (seed, seed_offset) pairs, and after k fused launches of n
\* elements each seed_offset_ has grown from 0 to k * n.
C19_SeedOffsetAdvances ==
  /\ seed_offset_ = SumOfCounts(fused_calls)
  /\ \A i \in 1..(Len(fused_calls) - 1) :
       /\ fused_calls[i + 1].seed_offset = fused_calls[i].seed_offset + fused_calls[i].num_count
       /\ fused_calls[i + 1].seed = fused_calls[i].seed =>
            fused_calls[i + 1].seed_offset # fused_calls[i].seed_offset
  /\ \A n \in ElementCounts :
       (\A i \in 1..Len(fused_calls) : fused_calls[i].num_count = n) =>
         seed_offset_ = Len(fused_calls) * n

C19_Witness ==
  /\ Len(fused_calls) = 2
  /\ fused_calls[1].seed = 5 /\ fused_calls[2].seed = 5
  /\ fused_calls[1].num_count = 4 /\ fused_calls[2].num_count = 4
  /\ fused_calls[2].seed_offset = 4
  /\ seed_offset_ = 8

-----------------------------------------------------------------------------
\* Claims about PynativeExecutor::GetInstance.

ReturnedValues == UNION {{gi_returned[t][k] : k \in 1..Len(gi_returned[t])} : t \in Threads}

-----------------------------------------------------------------------------
\* One launch of the kernel: no element is updated twice, an updated element read
\* the values of batch i / input_elements, and once every thread has left its
\* loop each element of [0, batch_size * input_elements) was updated once and no
\* other element was touched.
UpdatedExactlyOnce ==
  /\ \A i \in RmsElements :
       /\ rms_updates[i] <= 1
       /\ rms_updates[i] = 1 => rms_batch_read[i] = i \div rms_input_elements
       /\ i >= rms_batch_size * rms_input_elements => rms_updates[i] = 0
  /\ KernelFinished =>
       \A i \in RmsElements : i < rms_batch_size * rms_input_elements => rms_updates[i] = 1

\* C21 (as stated): for any positive grid and block dimensions, one launch over
\* batch_size * input_elements elements updates every element index exactly once,
\* with the learning rate of batch i / input_elements.
C21_EveryElementOnceAnyDims == rms_kernel \in RmsKernels => UpdatedExactlyOnce

\* C21 (amended): the same, for grid and block dimensions whose product
\* blockDim.x * gridDim.x does not wrap in unsigned int.
C21_EveryElementOnceNoWrap ==
  (rms_kernel \in RmsKernels /\ rms_blockDim * rms_gridDim < 2 ^ UIntBits)
    => UpdatedExactlyOnce

\* A finished launch of 2 batches of 3 elements on a grid of 2 blocks of 2 threads:
\* the threads of block 0 went round their loop twice.
C21_Witness ==
  /\ KernelFinished
  /\ rms_kernel = "RmsPropCenter"
  /\ rms_batch_size = 2 /\ rms_input_elements = 3
  /\ rms_gridDim = 2 /\ rms_blockDim = 2
  /\ rms_i[<<0, 0>>] = 8
  /\ \A i \in 0..5 : rms_updates[i] = 1
  /\ rms_batch_read = (0 :> 0 @@ 1 :> 0 @@ 2 :> 0 @@ 3 :> 1 @@ 4 :> 1 @@ 5 :> 1)

-----------------------------------------------------------------------------
\* The number of non-zeros and the row count of the sparse tensor an inference
\* was called on: CSR2COO is given nnz itself and the indptr, of rows + 1 entries;
\* the others the indices, of nnz entries, and the shape tuple.
CsrNnz == IF csr_op = "CSR2COO" THEN csr_args.nnz ELSE csr_args.nnz_vec[1]
CsrRowCount ==
  IF csr_op = "CSR2COO" THEN csr_args.indptr_shape[1] - 1 ELSE csr_args.sparse_shape[1]

\* C22: each CSR-family inference that sets csr_avg_rows sets it to the number
\* of non-zeros divided by the row count of the sparse tensor.
C22_AvgRowsIsNnzOverRows ==
  csr_avg_rows.set => csr_avg_rows.value = CsrNnz \div CsrRowCount

-----------------------------------------------------------------------------
ApplyInferred == apply_result.status \in {"ok", "ValueError"}
AllStatic ==
  /\ ~IsDynamic(apply_args.var) /\ ~IsDynamic(apply_args.ms)
  /\ ~IsDynamic(apply_args.mom) /\ ~IsDynamic(apply_args.grad)
OneShape ==
  /\ apply_args.var = apply_args.ms
  /\ apply_args.var = apply_args.mom
  /\ apply_args.var = apply_args.grad
\* A statically shaped one of mean_square, moment and grad differs from a
\* statically shaped var.
DiffersFromStaticVar ==
  /\ ~IsDynamic(apply_args.var)
  /\ \E f \in {"ms", "mom", "grad"} :
       ~IsDynamic(apply_args[f]) /\ apply_args[f] # apply_args.var

\* C23 (as stated): the inference raises an error when var, mean_square, moment
\* and grad are all statically shaped and do not share one shape, and raises no
\* shape-mismatch error when any one of the four is dynamically shaped.
C23_MismatchRaisedUnlessAnyDynamic ==
  ApplyInferred =>
    /\ (AllStatic /\ ~OneShape) => apply_result.status = "ValueError"
    /\ ~AllStatic => apply_result.status = "ok"

\* C23 (amended): the inference raises an error exactly when var is statically
\* shaped and one of mean_square, moment and grad is statically shaped with a
\* shape other than var's; a dynamically shaped var skips every comparison, a
\* dynamically shaped other argument only its own. Otherwise var's shape is
\* returned.
C23_MismatchWithStaticVarRaised ==
  ApplyInferred =>
    /\ apply_result.status = "ValueError" <=> DiffersFromStaticVar
    /\ apply_result.status = "ok" => apply_result.abstract = apply_args.var

\* grad is dynamically shaped, and the mismatch of mean_square with var is raised.
C23_Witness ==
  /\ apply_args = [var |-> <<2, 3>>, ms |-> <<3, 3>>, mom |-> <<2, 3>>, grad |-> <<2, -1>>]
  /\ apply_result = Raise("ValueError")

-----------------------------------------------------------------------------
\* The dimension limit truncates the assignment domain.
Truncated == dimension_limit \in 1..(RawNc - 1)

\* All assignments of min(nr, L) pairs among the first L columns of the raw
\* matrix.
RestrictedAssignments ==
  {A \in SUBSET ((0..(RawNr - 1)) \X (0..(dimension_limit - 1))) :
     /\ Cardinality(A) = Min2(RawNr, dimension_limit)
     /\ \A p \in A : \A q \in A : p # q => (p[1] # q[1] /\ p[2] # q[2])}

\* The pairs LaunchKernel wrote, the padding left out.
ReturnedPairs == {p \in Returned : p[1] # -1}

\* C24: with a limit 0 < L < raw_nc (finite costs, maximize = false) every
\* returned column index is below L and the returned pairs are an assignment of
\* min(nr, L) pairs among the columns 0 .. L - 1 of the raw matrix whose total cost
\* is the minimum over all such assignments.
C24_MinimalWithinLimit ==
  (lsa_result.status # "none" /\ ~maximize /\ Truncated /\ FiniteCosts) =>
    /\ lsa_result.status = "true"
    /\ ReturnedPairs \in RestrictedAssignments
    /\ \A A \in RestrictedAssignments : SumCost(ReturnedPairs) <= SumCost(A)

-----------------------------------------------------------------------------
\* Claims about the memory of the recv actor's messages.

Outstanding == {m \in Messages : buffers[m].state = "outstanding"}

\* C25: at any time at most one buffer handed out by AllocateMessage is
\* outstanding, and a buffer that has been freed was freed by the EraseInput that
\* completed the step under which its message was recorded.
C25_AllocateFreePaired ==
  /\ Cardinality(Outstanding) <= 1
  /\ \A m \in Messages :
       buffers[m].state = "freed" => buffers[m].freed_in = recorded_ctx[m]


-----------------------------------------------------------------------------
\* Claims about the completion of a step of the recv actor.

\* Every declared peer has emitted its message of step k and the scheduler has
\* attached the context of step k.
StepDelivered(k) ==
  /\ input_inter_process_num_ = NumSenders
  /\ sched_step >= k
  /\ \A s \in Senders : sent[s] >= k

\* C26: with N >= 2 declared inter-process inputs, once the context of a step is
\* attached and each of the N senders has delivered its message for that step,
\* all N messages are eventually recorded and the actor eventually runs for the
\* step; no handler stays blocked behind the reset made by an earlier message.
C26_StepEventuallyRuns ==
  \A k \in Steps :
    [](StepDelivered(k)
         => <>(/\ \A s \in Senders : recorded_ctx[<<s, k>>] # 0
               /\ finished_step >= k))


-----------------------------------------------------------------------------
\* Claims about RecvActor::ParseDynamicShapeData.

\* C27: the parser reads only bytes inside the message body, and it raises an
\* error, instead of returning, when the body is too short for a magic header,
\* a length field, the protobuf bytes or the payload of an input.
C27_ReadsInsideBodyOrRaises ==
  /\ pds_read_end <= pds_body.size
  /\ pds_pc = "returned" => pds_offset <= pds_body.size


-----------------------------------------------------------------------------
\* Claims about the loops of Solve.

\* C28: Solve terminates: for each row the search loop of AugmentingPath runs at
\* most nc times before it returns a sink column or -1, and the walk back of
\* AugmentPreviousSolution reaches the current row within as many steps as there
\* are rows up to it.
C28_SolveLoopsBounded ==
  lsa_result.status # "none" =>
    /\ lsa_result.status \in {"true", "false", "exception"}
    /\ \A r \in 1..Len(lsa_effort.rounds) :
         lsa_effort.rounds[r] >= 1 /\ lsa_effort.rounds[r] <= lsa_effort.nc
    /\ \A r \in 1..Len(lsa_effort.steps) :
         lsa_effort.steps[r] >= 1 /\ lsa_effort.steps[r] <= r

\* C28 witness: a solve in which the search loop of some row ran nc >= 2 times and
\* the walk back of some row took more than one step.
C28_Witness ==
  /\ lsa_result.status = "true"
  /\ lsa_effort.nc >= 2
  /\ \E r \in 1..Len(lsa_effort.rounds) : lsa_effort.rounds[r] = lsa_effort.nc
  /\ \E r \in 1..Len(lsa_effort.steps) : lsa_effort.steps[r] >= 2


-----------------------------------------------------------------------------
\* Claims about the pad-mode accessors of MaxPoolGradWithArgmax.

\* C29: for each pad mode m of SAME and VALID, get_pad_mode() after
\* set_pad_mode(m), or after Init with m, returns m and raises no error.
C29_PadModeRoundTrip ==
  (mp_got # "none" /\ mp_origin \in {"set_pad_mode", "Init"} /\ mp_mode \in {"SAME", "VALID"})
    => mp_got = mp_mode


-----------------------------------------------------------------------------
\* Claims about the shape inference of AllGather and ReduceScatter.

\* C30: when the input's leading dimension is -1 the output's leading dimension is
\* -1, otherwise it is the input's leading dimension times rank_size; the output
\* shape holds no negative dimension other than -1.
C30_LeadingDimWellFormed ==
  (gather_op # "none" /\ gather_result.status = "ok") =>
    /\ gather_result.abstract[1] =
         IF gather_args.shape[1] = -1 THEN -1
         ELSE gather_args.shape[1] * gather_args.rank_size
    /\ \A i \in 1..Len(gather_result.abstract) : gather_result.abstract[i] >= -1
====
